---- MODULE Spec2Model ----
(***************************************************************************)
(* Rule engines of the card games repository (solitaire, hearts,          *)
(* president, poker, blackjack) as state machines over the shared card     *)
(* primitives of lib/engine/deck.ts.                                       *)
(*                                                                         *)
(* A card is the record [suit, value]: deck.ts gives every card of a deck  *)
(* a fresh uuid, and within one deck the pair (suit, rank) is unique, so   *)
(* the pair stands for the id; value is getRankValue(rank), a bijection.   *)
(* Sequences are 1-based here and 0-based in the source: a column or       *)
(* player index i of the source is i + 1 in the model where it indexes a   *)
(* sequence, and player ids "player-i" are the numbers 0..3.               *)
(*                                                                         *)
(* A rejected call returns null in the source and leaves the caller's      *)
(* state as it was; an operator that may reject returns Fail or Ok(state), *)
(* and the action it belongs to is enabled only for Ok.                    *)
(***************************************************************************)
EXTENDS Integers, Sequences, FiniteSets, TLC

VARIABLES
    solitaire,   \* the SolitaireState the caller holds
    hearts,      \* the HeartsState the caller holds
    heartsArg,   \* score and roundScore of the players of the state object
                 \* passed to the last hearts call, as they read after the
                 \* call returned
    asshole,     \* the AssholeState (president) the caller holds
    poker,       \* the PokerState the caller holds
    evaluator,   \* the arguments and the result of a call of the poker
                 \* hand evaluator
    blackjack,   \* the BlackjackState the caller holds
    handValue,   \* the argument and the result of a call of getHandValue
    deckCall     \* the arguments and the result of a call of drawCards

vars ==
    <<solitaire, hearts, heartsArg, asshole, poker, evaluator, blackjack, handValue, deckCall>>

\* A game that is not being played.
Idle == [phase |-> "idle"]

solitaireIdle == solitaire = Idle
heartsIdle == hearts = Idle /\ heartsArg = Idle
assholeIdle == asshole = Idle
pokerIdle == poker = Idle /\ evaluator = Idle
blackjackIdle == blackjack = Idle /\ handValue = Idle
deckIdle == deckCall = Idle

solitaireOnly == UNCHANGED <<hearts, heartsArg, asshole, poker, evaluator, blackjack, handValue, deckCall>>
heartsOnly == UNCHANGED <<solitaire, asshole, poker, evaluator, blackjack, handValue, deckCall>>
assholeOnly == UNCHANGED <<solitaire, hearts, heartsArg, poker, evaluator, blackjack, handValue, deckCall>>
pokerOnly == UNCHANGED <<solitaire, hearts, heartsArg, asshole, evaluator, blackjack, handValue, deckCall>>
evaluatorOnly == UNCHANGED <<solitaire, hearts, heartsArg, asshole, poker, blackjack, handValue, deckCall>>
blackjackOnly ==
    UNCHANGED <<solitaire, hearts, heartsArg, asshole, poker, evaluator, handValue, deckCall>>
handValueOnly ==
    UNCHANGED <<solitaire, hearts, heartsArg, asshole, poker, evaluator, blackjack, deckCall>>
deckCallOnly ==
    UNCHANGED <<solitaire, hearts, heartsArg, asshole, poker, evaluator, blackjack, handValue>>

----------------------------------------------------------------------------
(* Generic helpers.                                                        *)

Fail == [ok |-> FALSE]

Ok(s) == [ok |-> TRUE, state |-> s]

Range(s) == {s[i] : i \in DOMAIN s}

Min(a, b) == IF a <= b THEN a ELSE b

\* Array.prototype.slice(from) / slice(0, to) on 1-based sequences.
SliceFrom(s, from) == SubSeq(s, from, Len(s))

SliceTo(s, to) == SubSeq(s, 1, Min(to, Len(s)))

Last(s) == s[Len(s)]

ButLast(s) == SubSeq(s, 1, Len(s) - 1)

Reverse(s) == [i \in 1..Len(s) |-> s[Len(s) + 1 - i]]

RECURSIVE Flatten(_)
Flatten(ss) == IF ss = <<>> THEN <<>> ELSE Head(ss) \o Flatten(Tail(ss))

RECURSIVE GCD(_, _)
GCD(a, b) == IF b = 0 THEN a ELSE GCD(b, a % b)

\* Number of positions of s that hold x.
Count(s, x) == Cardinality({i \in DOMAIN s : s[i] = x})

----------------------------------------------------------------------------
(* Card and deck primitives: lib/engine/deck.ts                            *)

SUITS == <<"hearts", "diamonds", "clubs", "spades">>

SuitIndex(suit) == CHOOSE i \in 1..4 : SUITS[i] = suit

\* getRankValue: A = 1, 2..10, J = 11, Q = 12, K = 13.
ACE == 1
TWO == 2
THREE == 3
TEN == 10
JACK == 11
QUEEN == 12
KING == 13

Card(suit, value) == [suit |-> suit, value |-> value]

\* createDeck over the ranks 1..n: suit by suit, each suit in rank order.
\* The program's deck is DeckOfRanks(KING), 52 cards.
DeckOfRanks(n) ==
    [i \in 1..(4 * n) |-> Card(SUITS[((i - 1) \div n) + 1], ((i - 1) % n) + 1)]

createDeck == DeckOfRanks(KING)

\* The strides coprime to n, in ascending order, as a sequence.
RECURSIVE StridesFrom(_, _)
StridesFrom(a, n) ==
    IF a >= n THEN <<>>
    ELSE (IF GCD(a, n) = 1 THEN <<a>> ELSE <<>>) \o StridesFrom(a + 1, n)

\* shuffleDeck draws a permutation with Math.random.  The k-th permutation
\* explored is the affine one i -> stride * i + offset (mod n).
ShufflePerm(k, n) ==
    LET strides == StridesFrom(1, n)
        a == strides[((k - 1) % Len(strides)) + 1]
        b == (5 * k) % n
    IN  [i \in 1..n |-> ((a * (i - 1) + b) % n) + 1]

shuffleDeck(deck, k) ==
    LET p == ShufflePerm(k, Len(deck)) IN [i \in 1..Len(deck) |-> deck[p[i]]]

\* Mutant of drawCards: the drawn cards stay in the deck.
drawCardsKeepsDeck(deck, count) ==
    [drawnCards |-> SliceTo(deck, count), remainingDeck |-> deck]

\* drawCards(deck, count): slice(0, count) and slice(count).
drawCards(deck, count) ==
    [drawnCards |-> SliceTo(deck, count),
     remainingDeck |-> SliceFrom(deck, count + 1)]

\* sortCards: by suit in SUITS order, then by value.  The comparator is a
\* total order on the cards of a deck, so the result is the sorted sequence
\* of the same cards whatever the sort algorithm.
CardBefore(a, b) ==
    \/ SuitIndex(a.suit) < SuitIndex(b.suit)
    \/ a.suit = b.suit /\ a.value < b.value

RECURSIVE InsertSorted(_, _)
InsertSorted(c, s) ==
    IF s = <<>> THEN <<c>>
    ELSE IF CardBefore(c, Head(s)) THEN <<c>> \o s
    ELSE <<Head(s)>> \o InsertSorted(c, Tail(s))

RECURSIVE sortCards(_)
sortCards(cards) ==
    IF cards = <<>> THEN <<>>
    ELSE InsertSorted(Head(cards), sortCards(Tail(cards)))

\* drawCards called on the first size cards of a shuffled deck.
MaxDeck == 6
MaxDraw == 8

\* The shuffles the decks come from.
DrawDeals == {1, 2}

DrawInit ==
    /\ \E k \in DrawDeals, size \in 0..MaxDeck, count \in 0..MaxDraw :
          deckCall = [phase |-> "called",
                  deck |-> SliceTo(shuffleDeck(createDeck, k), size),
                  count |-> count]
    /\ solitaireIdle
    /\ heartsIdle
    /\ assholeIdle
    /\ pokerIdle
    /\ blackjackIdle

\* deck is the argument as it reads after the call; drawCards only reads
\* it.
DrawCards ==
    /\ deckCall.phase = "called"
    /\ deckCall' = [phase |-> "returned",
                    deck |-> deckCall.deck,
                    count |-> deckCall.count,
                    result |-> drawCards(deckCall.deck, deckCall.count)]
    /\ deckCallOnly

SpecDrawCards == DrawInit /\ [][DrawCards]_vars

\* C18: drawCards(deck, n) returns as drawn cards the first min(n, size)
\* cards of the deck in deck order and as remaining deck the rest in order,
\* so that drawn followed by remaining is the original sequence; when n
\* exceeds the deck size it returns fewer than n cards and an empty
\* remaining deck; the deck passed in is not changed.
C18_DrawCards ==
    [][deckCall.phase = "called" =>
          LET deck == deckCall.deck
              n == deckCall.count
              taken == IF n <= Len(deck) THEN n ELSE Len(deck)
              drawn == deckCall'.result.drawnCards
              remaining == deckCall'.result.remainingDeck
          IN  /\ Len(drawn) = taken
              /\ \A i \in 1..taken : drawn[i] = deck[i]
              /\ Len(remaining) = Len(deck) - taken
              /\ \A i \in 1..Len(remaining) : remaining[i] = deck[taken + i]
              /\ drawn \o remaining = deck
              /\ n > Len(deck) => Len(drawn) < n /\ remaining = <<>>
              /\ deckCall'.deck = deck
      ]_<<deckCall>>

\* C18 witness: more cards were asked for than the deck of three held.
C18_Witness ==
    /\ deckCall.phase = "returned"
    /\ Len(deckCall.deck) = 3
    /\ deckCall.count = 5
    /\ Len(deckCall.result.drawnCards) = 3
    /\ deckCall.result.remainingDeck = <<>>

----------------------------------------------------------------------------
(* Solitaire: lib/games/solitaire.ts                                       *)
(*                                                                         *)
(* The deck explored has SolRanks ranks per suit and is dealt into SolCols *)
(* columns (13 and 7 in the program); the top rank plays the King and a    *)
(* foundation is complete with SolRanks cards.  A solitaire card also      *)
(* carries faceUp, which the moves read.  startTime is never read.         *)

SolRanks == 3
SolCols == 3
MaxMoves == 18

\* The shuffles dealt (indices of ShufflePerm).
SolDeals == {2, 4}

SolKing == SolRanks

SolDeck == DeckOfRanks(SolRanks)

SolCard(c, up) == [suit |-> c.suit, value |-> c.value, faceUp |-> up]

createSolitaireGame(k) ==
    LET deck == shuffleDeck(SolDeck, k)
        first(col) == (col * (col - 1)) \div 2
        dealt == (SolCols * (SolCols + 1)) \div 2
    IN  [tableau |-> [col \in 1..SolCols |->
                        [row \in 1..col |-> SolCard(deck[first(col) + row], row = col)]],
         foundation |-> <<<<>>, <<>>, <<>>, <<>>>>,
         stock |-> [i \in 1..(Len(deck) - dealt) |-> SolCard(deck[dealt + i], FALSE)],
         waste |-> <<>>,
         moves |-> 0,
         isWon |-> FALSE]

\* Mutant of canMoveToFoundation: an empty foundation takes any card.
canMoveToFoundationAnyStart(card, foundation) ==
    IF Len(foundation) = 0 THEN TRUE
    ELSE LET topCard == Last(foundation)
         IN  card.suit = topCard.suit /\ card.value = topCard.value + 1

canMoveToFoundation(card, foundation) ==
    IF Len(foundation) = 0 THEN card.value = ACE
    ELSE LET topCard == Last(foundation)
         IN  card.suit = topCard.suit /\ card.value = topCard.value + 1

IsRedSuit(suit) == suit = "hearts" \/ suit = "diamonds"

\* Mutant of canMoveToTableau: the colors are not compared.
canMoveToTableauAnyColor(card, column) ==
    IF Len(column) = 0 THEN card.value = SolKing
    ELSE card.value = Last(column).value - 1

canMoveToTableau(card, column) ==
    IF Len(column) = 0 THEN card.value = SolKing
    ELSE LET topCard == Last(column)
             isAlternatingColor == IsRedSuit(card.suit) # IsRedSuit(topCard.suit)
         IN  isAlternatingColor /\ card.value = topCard.value - 1

drawFromStock(state) ==
    IF Len(state.stock) = 0
    THEN [state EXCEPT !.stock = Reverse([i \in 1..Len(state.waste) |->
                                            SolCard(state.waste[i], FALSE)]),
                       !.waste = <<>>,
                       !.moves = state.moves + 1]
    ELSE [state EXCEPT !.stock = Tail(state.stock),
                       !.waste = Append(state.waste, SolCard(Head(state.stock), TRUE)),
                       !.moves = state.moves + 1]

\* Mutant of FlipTop: the new top card is left as it lies.
FlipTopNever(column) == column

\* The new top card of a column that lost cards is turned face up.
FlipTop(column) ==
    IF Len(column) > 0 /\ ~Last(column).faceUp
    THEN [column EXCEPT ![Len(column)] = SolCard(Last(column), TRUE)]
    ELSE column

\* Mutant of AllFoundationsFull: one full foundation is enough.
SomeFoundationFull(foundation) ==
    \E i \in 1..4 : Len(foundation[i]) = SolRanks

\* newState.foundation.every(pile => pile.length === 13)
AllFoundationsFull(foundation) ==
    \A i \in 1..4 : Len(foundation[i]) = SolRanks

\* source is "waste" or "tableau"; columnIndex is 0 for undefined.
moveToFoundation(state, source, columnIndex) ==
    LET has == IF source = "waste" THEN Len(state.waste) > 0
               ELSE columnIndex # 0 /\ Len(state.tableau[columnIndex]) > 0
    IN  IF ~has THEN Fail
        ELSE
        LET card == IF source = "waste" THEN Last(state.waste)
                    ELSE Last(state.tableau[columnIndex])
            foundationIndex == SuitIndex(card.suit)
        IN  IF ~canMoveToFoundation(card, state.foundation[foundationIndex]) THEN Fail
            ELSE
            LET newFoundation ==
                    [state.foundation EXCEPT ![foundationIndex] = Append(@, card)]
                moved ==
                    IF source = "waste"
                    THEN [state EXCEPT !.waste = ButLast(state.waste),
                                       !.foundation = newFoundation,
                                       !.moves = state.moves + 1]
                    ELSE [state EXCEPT !.tableau[columnIndex] =
                                           FlipTop(ButLast(state.tableau[columnIndex])),
                                       !.foundation = newFoundation,
                                       !.moves = state.moves + 1]
            IN  Ok([moved EXCEPT !.isWon = AllFoundationsFull(moved.foundation)])

\* cardIndex is 1-based: the cards from cardIndex to the top move.
moveCardsInTableau(state, fromColumn, toColumn, cardIndex) ==
    LET sourceColumn == state.tableau[fromColumn]
        targetColumn == state.tableau[toColumn]
        cardsToMove == SliceFrom(sourceColumn, cardIndex)
    IN  IF Len(cardsToMove) = 0 THEN Fail
        ELSE IF ~cardsToMove[1].faceUp THEN Fail
        ELSE IF ~canMoveToTableau(cardsToMove[1], targetColumn) THEN Fail
        ELSE
        LET newSourceColumn == FlipTop(SliceTo(sourceColumn, cardIndex - 1))
            \* newTableau[fromColumn] is written first, newTableau[toColumn] last
            withSource == [state.tableau EXCEPT ![fromColumn] = newSourceColumn]
            newTableau == [withSource EXCEPT ![toColumn] = targetColumn \o cardsToMove]
        IN  Ok([state EXCEPT !.tableau = newTableau, !.moves = state.moves + 1])

\* Mutant of moveWasteToTableau: the card is not taken off the waste.
moveWasteToTableauKeepsWaste(state, toColumn) ==
    IF Len(state.waste) = 0 THEN Fail
    ELSE
    LET card == Last(state.waste)
        targetColumn == state.tableau[toColumn]
    IN  IF ~canMoveToTableau(card, targetColumn) THEN Fail
        ELSE Ok([state EXCEPT !.tableau[toColumn] = Append(targetColumn, card),
                              !.moves = state.moves + 1])

moveWasteToTableau(state, toColumn) ==
    IF Len(state.waste) = 0 THEN Fail
    ELSE
    LET card == Last(state.waste)
        targetColumn == state.tableau[toColumn]
    IN  IF ~canMoveToTableau(card, targetColumn) THEN Fail
        ELSE Ok([state EXCEPT !.tableau[toColumn] = Append(targetColumn, card),
                              !.waste = ButLast(state.waste),
                              !.moves = state.moves + 1])

checkAutoComplete(state) ==
    /\ \A col \in 1..SolCols :
          \A i \in 1..Len(state.tableau[col]) : state.tableau[col][i].faceUp
    /\ Len(state.stock) = 0
    /\ Len(state.waste) = 0

\* Mutant of autoComplete: a single pass of the for loop, one move at most.
autoCompleteOnePass(state) ==
    LET movable == {col \in 1..SolCols : moveToFoundation(state, "tableau", col).ok}
    IN  IF movable = {} THEN state
        ELSE LET col == CHOOSE c \in movable : \A d \in movable : c <= d
             IN  moveToFoundation(state, "tableau", col).state

\* The while loop of autoComplete: the first column (in index order) whose
\* top card moves to a foundation is moved, until no column has one.
RECURSIVE autoComplete(_)
autoComplete(state) ==
    LET movable == {col \in 1..SolCols : moveToFoundation(state, "tableau", col).ok}
    IN  IF movable = {} THEN state
        ELSE LET col == CHOOSE c \in movable : \A d \in movable : c <= d
             IN  autoComplete(moveToFoundation(state, "tableau", col).state)

SolInit ==
    /\ \E k \in SolDeals : solitaire = createSolitaireGame(k)
    /\ heartsIdle
    /\ assholeIdle
    /\ pokerIdle
    /\ blackjackIdle
    /\ deckIdle

DrawFromStock ==
    /\ solitaire.moves < MaxMoves
    /\ solitaire' = drawFromStock(solitaire)
    /\ solitaireOnly

MoveToFoundation ==
    /\ solitaire.moves < MaxMoves
    /\ \E source \in {"waste", "tableau"}, columnIndex \in 0..SolCols :
          LET r == moveToFoundation(solitaire, source, columnIndex)
          IN  r.ok /\ solitaire' = r.state
    /\ solitaireOnly

MoveCardsInTableau ==
    /\ solitaire.moves < MaxMoves
    /\ \E fromColumn \in 1..SolCols, toColumn \in 1..SolCols :
          \E cardIndex \in 1..(Len(solitaire.tableau[fromColumn]) + 1) :
             LET r == moveCardsInTableau(solitaire, fromColumn, toColumn, cardIndex)
             IN  r.ok /\ solitaire' = r.state
    /\ solitaireOnly

MoveWasteToTableau ==
    /\ solitaire.moves < MaxMoves
    /\ \E toColumn \in 1..SolCols :
          LET r == moveWasteToTableau(solitaire, toColumn)
          IN  r.ok /\ solitaire' = r.state
    /\ solitaireOnly

\* autoComplete makes as many moves as it makes; it is explored when the
\* move counter stays within the bound.
AutoComplete ==
    /\ autoComplete(solitaire).moves <= MaxMoves
    /\ solitaire' = autoComplete(solitaire)
    /\ solitaireOnly

SolNext ==
    \/ DrawFromStock
    \/ MoveToFoundation
    \/ MoveCardsInTableau
    \/ MoveWasteToTableau
    \/ AutoComplete

SpecSolitaire == SolInit /\ [][SolNext]_vars

\* The cards of a solitaire state, pile after pile, without faceUp.
SolAllCards(state) ==
    LET all == Flatten(state.tableau) \o Flatten(state.foundation)
                 \o state.stock \o state.waste
    IN  [i \in 1..Len(all) |-> Card(all[i].suit, all[i].value)]

\* C1: in every reachable solitaire state the tableau columns, the
\* foundations, the stock and the waste together hold every card of the
\* deck exactly once.
C1_SolitaireCardsConserved ==
    LET all == SolAllCards(solitaire)
    IN  /\ Len(all) = Len(SolDeck)
        /\ \A i \in DOMAIN SolDeck : Count(all, SolDeck[i]) = 1

\* C1 witness: draws, a move onto a tableau column and a move to a
\* foundation have been made.
C1_Witness ==
    /\ \E i \in 1..4 : Len(solitaire.foundation[i]) > 0
    /\ Len(solitaire.waste) > 0
    /\ \E col \in 1..SolCols : Len(solitaire.tableau[col]) > col
    /\ solitaire.moves = MaxMoves

\* C16: no operation ever removes a card from a foundation.  In every
\* reachable state each foundation holds the cards Ace, 2, 3, ... of one
\* single suit in ascending order without gaps, and the size of a
\* foundation never decreases from one state to the next.
C16_FoundationsGrow ==
    /\ [](\A i \in 1..4 :
             \A j \in 1..Len(solitaire.foundation[i]) :
                /\ solitaire.foundation[i][j].value = ACE + (j - 1)
                /\ solitaire.foundation[i][j].suit = solitaire.foundation[i][1].suit)
    /\ [][\A i \in 1..4 :
             /\ Len(solitaire'.foundation[i]) >= Len(solitaire.foundation[i])
             /\ SubSeq(solitaire'.foundation[i], 1, Len(solitaire.foundation[i]))
                   = solitaire.foundation[i]
         ]_<<solitaire>>

\* C16 witness: one foundation holds Ace and 2 of a suit while another was
\* started, after moves from the waste and from the tableau.
C16_Witness ==
    \E i \in 1..4, j \in 1..4 :
       /\ i # j
       /\ Len(solitaire.foundation[i]) >= 2
       /\ Len(solitaire.foundation[j]) >= 1
       /\ Len(solitaire.waste) > 0

\* C17: in every reachable state isWon is true if and only if all four
\* foundations hold all the cards of their suit (13 in the program).
C17_WonWhenFoundationsFull ==
    solitaire.isWon <=> \A i \in 1..4 : Len(solitaire.foundation[i]) = Len(SolDeck) \div 4

\* C17 witness: a won game, and nothing left outside the foundations.
C17_Witness ==
    /\ solitaire.isWon
    /\ \A col \in 1..SolCols : Len(solitaire.tableau[col]) = 0
    /\ Len(solitaire.stock) = 0
    /\ Len(solitaire.waste) = 0

\* C22 (as claimed): drawFromStock on an empty stock empties the waste and
\* puts every waste card back in the stock face-down, in the order in which
\* the draws of the pass before turned them over (the waste from its first
\* card to its last), so that the next pass shows the cards in the same
\* order.
C22_RecycleKeepsOrder ==
    [][(Len(solitaire.stock) = 0 /\ solitaire' = drawFromStock(solitaire))
       => /\ solitaire'.waste = <<>>
          /\ solitaire'.stock = [i \in 1..Len(solitaire.waste) |->
                                    SolCard(solitaire.waste[i], FALSE)]
      ]_<<solitaire>>

\* The face-down cards of a column lie under its face-up cards.
FaceDownThenUp(column) ==
    \A i \in 1..(Len(column) - 1) : column[i].faceUp => column[i + 1].faceUp

\* The face-up cards of a column descend by one rank per card and
\* alternate in color.
FaceUpRun(column) ==
    \A i \in 1..(Len(column) - 1) :
       (column[i].faceUp /\ column[i + 1].faceUp)
          => /\ column[i + 1].value = column[i].value - 1
             /\ IsRedSuit(column[i + 1].suit) # IsRedSuit(column[i].suit)

\* The rule for putting card on column: one rank lower than and of the
\* opposite color to the top card, or a King on an empty column.
RuleFits(card, column) ==
    /\ card.faceUp
    /\ \/ /\ Len(column) > 0
          /\ card.value = column[Len(column)].value - 1
          /\ IsRedSuit(card.suit) # IsRedSuit(column[Len(column)].suit)
       \/ /\ Len(column) = 0
          /\ card.value = SolKing

\* C38: in every reachable state each tableau column consists of face-down
\* cards followed by face-up cards, and the face-up cards form a run that
\* descends by exactly one rank per card with alternating colors; a
\* tableau-to-tableau or waste-to-tableau move is accepted only when the
\* first moved card is face-up and is one rank lower than and of the
\* opposite color to the target column's top card, or is a King going to an
\* empty column.
C38_TableauRuns ==
    /\ \A col \in 1..SolCols :
          FaceDownThenUp(solitaire.tableau[col]) /\ FaceUpRun(solitaire.tableau[col])
    /\ \A fromColumn \in 1..SolCols, toColumn \in 1..SolCols :
          \A cardIndex \in 1..(Len(solitaire.tableau[fromColumn]) + 1) :
             moveCardsInTableau(solitaire, fromColumn, toColumn, cardIndex).ok
                => RuleFits(solitaire.tableau[fromColumn][cardIndex],
                            solitaire.tableau[toColumn])
    /\ \A toColumn \in 1..SolCols :
          moveWasteToTableau(solitaire, toColumn).ok
             => RuleFits(Last(solitaire.waste), solitaire.tableau[toColumn])

\* C38 witness: a column holds a face-down card under a run of two face-up
\* cards, a run of two cards can move to another column and the waste card
\* can move to a column.
C38_Witness ==
    /\ \E col \in 1..SolCols :
          LET column == solitaire.tableau[col]
          IN  /\ Len(column) >= 3
              /\ ~column[1].faceUp
              /\ column[Len(column) - 1].faceUp
    /\ \E fromColumn \in 1..SolCols, toColumn \in 1..SolCols :
          \E cardIndex \in 1..(Len(solitaire.tableau[fromColumn]) - 1) :
             moveCardsInTableau(solitaire, fromColumn, toColumn, cardIndex).ok
    /\ \E toColumn \in 1..SolCols : moveWasteToTableau(solitaire, toColumn).ok

\* C39: in every reachable state the top card of every non-empty tableau
\* column is face-up: whenever a move to a foundation or to another column
\* takes cards off a column, the newly exposed card is turned face-up in the
\* returned state.
C39_TopFaceUp ==
    \A col \in 1..SolCols :
       Len(solitaire.tableau[col]) > 0 => Last(solitaire.tableau[col]).faceUp

\* C39 witness: a column has lost cards to a foundation or to another
\* column, so that a card dealt face-down is now its top card.
C39_Witness ==
    \E col \in 2..SolCols, k \in SolDeals :
       LET column == solitaire.tableau[col]
           dealt == createSolitaireGame(k).tableau[col]
       IN  /\ Len(column) > 0
           /\ Len(column) < col
           /\ SolCard(Last(column), FALSE) = dealt[Len(column)]

\* C40: from every reachable state in which checkAutoComplete is true (all
\* tableau cards face-up, stock and waste empty), autoComplete terminates
\* and returns a won state: all four foundations hold all the cards of
\* their suit, the tableau is empty and isWon is true.
C40_AutoCompleteWins ==
    checkAutoComplete(solitaire)
       => LET done == autoComplete(solitaire)
          IN  /\ \A i \in 1..4 : Len(done.foundation[i]) = SolRanks
              /\ \A col \in 1..SolCols : Len(done.tableau[col]) = 0
              /\ done.isWon

\* C40 witness: checkAutoComplete is true of a game not yet won, with
\* cards left on more than one column.
C40_Witness ==
    /\ checkAutoComplete(solitaire)
    /\ ~solitaire.isWon
    /\ \E c \in 1..SolCols, d \in 1..SolCols :
          c # d /\ Len(solitaire.tableau[c]) > 0 /\ Len(solitaire.tableau[d]) > 0


----------------------------------------------------------------------------
(* Hearts: lib/games/hearts.ts lines 1-408                                 *)
(*                                                                         *)
(* Four players, ids 0..3 ("player-0".."player-3").  The cards in play are *)
(* HeartsDeck, dealt HeartsHand to each player (the 52-card deck and 13 in *)
(* the program).  type is the field human (player 0 by default); name and  *)
(* the cards' faceUp are never read by the rules and are left out.         *)
(* leadSuit null is "none".                                                *)

HeartsDeck ==
    <<Card("hearts", ACE), Card("hearts", 5), Card("hearts", TEN), Card("hearts", KING),
      Card("diamonds", ACE), Card("diamonds", 6), Card("diamonds", JACK), Card("diamonds", KING),
      Card("clubs", TWO), Card("clubs", 5), Card("clubs", 9), Card("clubs", KING),
      Card("spades", ACE), Card("spades", THREE), Card("spades", QUEEN), Card("spades", KING)>>

HeartsHand == Len(HeartsDeck) \div 4

\* The shuffles dealt (indices of ShufflePerm).
HeartsDeals == {3, 4}

PASS_DIRECTIONS == <<"left", "right", "across", "none">>

GAME_SCORE == 100
MOON == 26
QUEEN_POINTS == 13
PASS_COUNT == 3

Players4 == 0..3

HPlayer(state, i) == state.players[i + 1]

InCards(cards, card) == \E j \in DOMAIN cards : cards[j] = card

Without(cards, gone) == SelectSeq(cards, LAMBDA h : ~InCards(gone, h))

IsTwoOfClubs(c) == c.suit = "clubs" /\ c.value = TWO

IsQueenOfSpades(c) == c.suit = "spades" /\ c.value = QUEEN

findTwoOfClubs(players) ==
    LET holders == {i \in Players4 : \E j \in DOMAIN players[i + 1].hand :
                                        IsTwoOfClubs(players[i + 1].hand[j])}
    IN  IF holders = {} THEN 0
        ELSE CHOOSE i \in holders : \A j \in holders : i <= j

DealtHand(deck, index) ==
    sortCards(SubSeq(deck, index * HeartsHand + 1, (index + 1) * HeartsHand))

createHeartsGame(k) ==
    LET deck == shuffleDeck(HeartsDeck, k)
        players == [i \in 1..4 |->
                      [human |-> i = 1,
                       hand |-> DealtHand(deck, i - 1),
                       tricks |-> <<>>,
                       score |-> 0,
                       roundScore |-> 0,
                       passedCards |-> <<>>,
                       receivedCards |-> <<>>]]
    IN  [players |-> players,
         currentPlayerIndex |-> findTwoOfClubs(players),
         currentTrick |-> <<>>,
         leadSuit |-> "none",
         heartsBroken |-> FALSE,
         phase |-> "passing",
         passDirection |-> "left",
         roundNumber |-> 1,
         gameScore |-> GAME_SCORE]

\* cards: a sequence of cards.
passCards(state, playerId, cards) ==
    IF Len(cards) # PASS_COUNT THEN Fail
    ELSE IF state.passDirection = "none" THEN Fail
    ELSE IF playerId \notin Players4 THEN Fail
    ELSE
    LET player == HPlayer(state, playerId)
        hasAllCards == \A j \in DOMAIN cards : InCards(player.hand, cards[j])
    IN  IF ~hasAllCards THEN Fail
        ELSE Ok([state EXCEPT !.players[playerId + 1] =
                    [player EXCEPT !.passedCards = cards,
                                   !.hand = Without(player.hand, cards)]])

PassTarget(direction, i) ==
    CASE direction = "left" -> (i + 1) % 4
      [] direction = "right" -> (i + 3) % 4
      [] direction = "across" -> (i + 2) % 4
      [] OTHER -> i

\* The loop of executePassPhase: player i's passedCards (read from the input
\* state) join the hand of the target, for i = 0, 1, 2, 3 in turn.
RECURSIVE GivePassed(_, _, _)
GivePassed(state, newPlayers, i) ==
    IF i = 4 THEN newPlayers
    ELSE LET targetIndex == PassTarget(state.passDirection, i)
             passed == HPlayer(state, i).passedCards
         IN  GivePassed(state,
                        [newPlayers EXCEPT ![targetIndex + 1] =
                            [@ EXCEPT !.receivedCards = passed,
                                      !.hand = sortCards(@ \o passed)]],
                        i + 1)

executePassPhase(state) ==
    IF ~(\A i \in Players4 : Len(HPlayer(state, i).passedCards) = PASS_COUNT)
    THEN state
    ELSE
    LET given == GivePassed(state, state.players, 0)
        newPlayers == [i \in 1..4 |-> [given[i] EXCEPT !.passedCards = <<>>]]
    IN  [state EXCEPT !.players = newPlayers,
                      !.phase = "playing",
                      !.currentPlayerIndex = findTwoOfClubs(newPlayers)]

NoTricksTaken(state) == \A i \in Players4 : Len(HPlayer(state, i).tricks) = 0

\* Mutant of isValidPlay: no rule for hearts and the queen of spades on a
\* first trick.
HeartsIsValidPlayAnyFirstTrick(state, playerId, card) ==
    IF playerId \notin Players4 THEN FALSE
    ELSE
    LET hand == HPlayer(state, playerId).hand
        has(P(_)) == \E j \in DOMAIN hand : P(hand[j])
        isFirstTrick == NoTricksTaken(state)
    IN  /\ InCards(hand, card)
        /\ ~(/\ Len(state.currentTrick) = 0
             /\ state.roundNumber = 1
             /\ isFirstTrick
             /\ ~IsTwoOfClubs(card)
             /\ has(IsTwoOfClubs))
        /\ ~(/\ state.leadSuit # "none"
             /\ card.suit # state.leadSuit
             /\ has(LAMBDA c : c.suit = state.leadSuit))
        /\ ~(/\ Len(state.currentTrick) = 0
             /\ card.suit = "hearts"
             /\ ~state.heartsBroken
             /\ has(LAMBDA c : c.suit # "hearts"))

HeartsIsValidPlay(state, playerId, card) ==
    IF playerId \notin Players4 THEN FALSE
    ELSE
    LET hand == HPlayer(state, playerId).hand
        has(P(_)) == \E j \in DOMAIN hand : P(hand[j])
        isFirstTrick == NoTricksTaken(state)
    IN  /\ InCards(hand, card)
        \* First trick must start with 2 of clubs
        /\ ~(/\ Len(state.currentTrick) = 0
             /\ state.roundNumber = 1
             /\ isFirstTrick
             /\ ~IsTwoOfClubs(card)
             /\ has(IsTwoOfClubs))
        \* Must follow suit if possible
        /\ ~(/\ state.leadSuit # "none"
             /\ card.suit # state.leadSuit
             /\ has(LAMBDA c : c.suit = state.leadSuit))
        \* Cannot lead hearts until broken (unless only hearts in hand)
        /\ ~(/\ Len(state.currentTrick) = 0
             /\ card.suit = "hearts"
             /\ ~state.heartsBroken
             /\ has(LAMBDA c : c.suit # "hearts"))
        \* Cannot play hearts or Queen of Spades on first trick
        /\ ~(/\ isFirstTrick
             /\ (card.suit = "hearts" \/ IsQueenOfSpades(card))
             /\ has(LAMBDA c : c.suit # "hearts" /\ ~IsQueenOfSpades(c)))

calculateTrickPoints(cards) ==
    LET pts(c) == IF c.suit = "hearts" THEN 1
                  ELSE IF IsQueenOfSpades(c) THEN QUEEN_POINTS ELSE 0
        sum[n \in 0..Len(cards)] == IF n = 0 THEN 0 ELSE sum[n - 1] + pts(cards[n])
    IN  sum[Len(cards)]

\* The loop of completeTrick over the trick, from position i on: the first
\* card of the lead suit whose value exceeds highestValue takes over.
RECURSIVE TrickWinnerIndex(_, _, _, _, _)
TrickWinnerIndex(trick, leadSuit, i, winnerIndex, highestValue) ==
    IF i > Len(trick) THEN winnerIndex
    ELSE IF trick[i].card.suit = leadSuit /\ trick[i].card.value > highestValue
         THEN TrickWinnerIndex(trick, leadSuit, i + 1, i, trick[i].card.value)
         ELSE TrickWinnerIndex(trick, leadSuit, i + 1, winnerIndex, highestValue)

\* Mutant of TrickWinner: the highest card wins whatever its suit.
TrickWinnerAnySuit(trick, leadSuit) ==
    LET best == CHOOSE i \in DOMAIN trick :
                    \A j \in DOMAIN trick :
                        \/ trick[j].card.value < trick[i].card.value
                        \/ trick[j].card.value = trick[i].card.value /\ i <= j
    IN  trick[best].playerId

\* Player index of the winner of a complete trick.
TrickWinner(trick, leadSuit) ==
    trick[TrickWinnerIndex(trick, leadSuit, 1, 1, 0)].playerId

\* Mutant of SettledScore: the round scores are added whoever took them.
SettledScoreNoMoon(players, i) ==
    players[i + 1].score + players[i + 1].roundScore

\* Cumulative scores after completeRound's settlement, by player index.
SettledScore(players, i) ==
    LET shooters == {j \in Players4 : players[j + 1].roundScore = MOON}
    IN  IF shooters # {}
        THEN LET moonShooter == CHOOSE j \in shooters : \A l \in shooters : j <= l
             IN  players[i + 1].score + (IF i = moonShooter THEN 0 ELSE MOON)
        ELSE players[i + 1].score + players[i + 1].roundScore

startNewRound(state, k) ==
    LET deck == shuffleDeck(HeartsDeck, k)
        newPlayers == [i \in 1..4 |->
                         [state.players[i] EXCEPT !.hand = DealtHand(deck, i - 1),
                                                  !.tricks = <<>>,
                                                  !.roundScore = 0,
                                                  !.passedCards = <<>>,
                                                  !.receivedCards = <<>>]]
        passDirection == PASS_DIRECTIONS[(state.roundNumber % 4) + 1]
    IN  [state EXCEPT !.players = newPlayers,
                      !.currentTrick = <<>>,
                      !.leadSuit = "none",
                      !.heartsBroken = FALSE,
                      !.phase = IF passDirection = "none" THEN "playing" ELSE "passing",
                      !.passDirection = passDirection,
                      !.roundNumber = state.roundNumber + 1,
                      !.currentPlayerIndex = findTwoOfClubs(newPlayers)]

\* completeRound adds to player.score in place, then ends the game or deals
\* the next round with shuffle k.
completeRound(state, k) ==
    LET newPlayers == [i \in 1..4 |->
                         [state.players[i] EXCEPT !.score = SettledScore(state.players, i - 1)]]
        maxScore == CHOOSE m \in {newPlayers[i].score : i \in 1..4} :
                        \A i \in 1..4 : newPlayers[i].score <= m
    IN  IF maxScore >= state.gameScore
        THEN [state EXCEPT !.players = newPlayers, !.phase = "gameEnd"]
        ELSE startNewRound([state EXCEPT !.players = newPlayers], k)

RoundComplete(players) == \A i \in 1..4 : Len(players[i].hand) = 0

\* The players after completeTrick credited the trick to its winner.
TrickCredited(state) ==
    LET winner == TrickWinner(state.currentTrick, state.leadSuit)
        trickCards == [j \in 1..Len(state.currentTrick) |-> state.currentTrick[j].card]
    IN  [state.players EXCEPT ![winner + 1] =
            [@ EXCEPT !.tricks = Append(@, trickCards),
                      !.roundScore = @ + calculateTrickPoints(trickCards)]]

completeTrick(state, k) ==
    LET newPlayers == TrickCredited(state)
    IN  IF RoundComplete(newPlayers)
        THEN completeRound([state EXCEPT !.players = newPlayers], k)
        ELSE [state EXCEPT !.players = newPlayers,
                           !.currentTrick = <<>>,
                           !.leadSuit = "none",
                           !.currentPlayerIndex =
                               TrickWinner(state.currentTrick, state.leadSuit)]

\* The state playCard builds before it looks at the length of the trick.
CardPlayed(state, playerId, card) ==
    LET newTrick == Append(state.currentTrick, [playerId |-> playerId, card |-> card])
    IN  [state EXCEPT !.players[playerId + 1].hand = SelectSeq(@, LAMBDA h : h # card),
                      !.currentTrick = newTrick,
                      !.leadSuit = IF Len(newTrick) = 1 THEN card.suit ELSE @,
                      !.heartsBroken = @ \/ card.suit = "hearts"]

HeartsPlayCard(state, playerId, card, k) ==
    IF ~HeartsIsValidPlay(state, playerId, card) THEN Fail
    ELSE
    LET played == CardPlayed(state, playerId, card)
    IN  IF Len(played.currentTrick) = 4
        THEN Ok(completeTrick(played, k))
        ELSE Ok([played EXCEPT !.currentPlayerIndex = (playerId + 1) % 4])

\* The only write to an existing object in hearts.ts is completeRound's
\* "player.score += ...": every other update builds new objects.  Scores(s)
\* is what a caller reads of the players' scores in a state object.
Scores(state) ==
    [i \in 1..4 |-> [score |-> state.players[i].score,
                     roundScore |-> state.players[i].roundScore]]

\* The scores of the argument of playCard as they read once the call has
\* returned.  playCard and completeTrick copy the players array and replace
\* the entry of the player who played and of the trick's winner by new
\* objects; the other entries are still the objects of the argument when
\* completeRound runs "player.score += ..." over the array.
PlayCardArgument(state, playerId, card) ==
    IF ~HeartsIsValidPlay(state, playerId, card) THEN Scores(state)
    ELSE
    LET played == CardPlayed(state, playerId, card)
    IN  IF Len(played.currentTrick) = 4 /\ RoundComplete(TrickCredited(played))
        THEN LET credited == TrickCredited(played)
                 winner == TrickWinner(played.currentTrick, played.leadSuit)
             IN  [i \in 1..4 |->
                    [score |-> IF i - 1 = playerId \/ i - 1 = winner
                               THEN state.players[i].score
                               ELSE SettledScore(credited, i - 1),
                     roundScore |-> state.players[i].roundScore]]
        ELSE Scores(state)

\* Mutant of getWinner: the first player with the highest score.
getWinnerHighest(state) ==
    IF state.phase # "gameEnd" THEN -1
    ELSE CHOOSE w \in Players4 :
            /\ \A i \in Players4 : HPlayer(state, w).score >= HPlayer(state, i).score
            /\ \A i \in 0..(w - 1) : HPlayer(state, i).score < HPlayer(state, w).score

\* The index of the player returned, -1 for null.
getWinner(state) ==
    IF state.phase # "gameEnd" THEN -1
    ELSE CHOOSE w \in Players4 :
            /\ \A i \in Players4 : HPlayer(state, w).score <= HPlayer(state, i).score
            /\ \A i \in 0..(w - 1) : HPlayer(state, i).score > HPlayer(state, w).score

\* getValidPlays: the cards of the hand that isValidPlay accepts, in the
\* order of the hand.
getValidPlays(state, playerId) ==
    IF playerId \notin Players4 THEN <<>>
    ELSE SelectSeq(HPlayer(state, playerId).hand,
                   LAMBDA card : HeartsIsValidPlay(state, playerId, card))

\* cards.sort((a, b) => a.value - b.value)[0]: the first card of the lowest
\* value (the sort is stable).
LowestCard(cards) ==
    cards[CHOOSE j \in DOMAIN cards :
            /\ \A l \in DOMAIN cards : cards[j].value <= cards[l].value
            /\ \A l \in 1..(j - 1) : cards[l].value # cards[j].value]

\* cards.sort((a, b) => b.value - a.value)[0]: the first card of the highest
\* value.
HighestCard(cards) ==
    cards[CHOOSE j \in DOMAIN cards :
            /\ \A l \in DOMAIN cards : cards[j].value >= cards[l].value
            /\ \A l \in 1..(j - 1) : cards[l].value # cards[j].value]

\* computerSelectCard's null.
NoCard == [suit |-> "none", value |-> 0]

computerSelectCard(state, playerId) ==
    LET validPlays == getValidPlays(state, playerId)
        trickCards == [j \in DOMAIN state.currentTrick |-> state.currentTrick[j].card]
        hasPoints == calculateTrickPoints(trickCards) > 0
        winningCard == HighestCard(SelectSeq(trickCards,
                                             LAMBDA c : c.suit = state.leadSuit))
        safeCards == SelectSeq(validPlays,
                               LAMBDA c : c.suit # state.leadSuit
                                            \/ c.value < winningCard.value)
    IN  IF validPlays = <<>> THEN NoCard
        ELSE IF Len(state.currentTrick) = 3 /\ hasPoints /\ safeCards # <<>>
        THEN HighestCard(safeCards)
        ELSE LowestCard(validPlays)

\* The rounds explored start at createHeartsGame, or at startNewRound from
\* the end of an earlier round with the cumulative scores given.
HeartsStarts ==
    {[roundNumber |-> 1, scores |-> <<0, 0, 0, 0>>],
     [roundNumber |-> 4, scores |-> <<20, 30, 15, 13>>],
     [roundNumber |-> 6, scores |-> <<99, 30, 1, 0>>]}

HeartsRoundStart(start, k) ==
    IF start.roundNumber = 1 THEN createHeartsGame(k)
    ELSE LET game == createHeartsGame(k)
             ended == [game EXCEPT
                          !.players = [i \in 1..4 |->
                                         [game.players[i] EXCEPT !.score = start.scores[i]]],
                          !.roundNumber = start.roundNumber - 1]
         IN  startNewRound(ended, k)

\* A round is followed from its first state to the state after its last
\* trick.
InExploredRound(state) == state.roundNumber \in {s.roundNumber : s \in HeartsStarts}

\* computerSelectPassCards: the hand sorted (stably) with the queen of
\* spades first, then hearts, then by descending value; the first three.
PassBefore(a, b) ==
    IF IsQueenOfSpades(a) THEN TRUE
    ELSE IF IsQueenOfSpades(b) THEN FALSE
    ELSE IF a.suit = "hearts" /\ b.suit # "hearts" THEN TRUE
    ELSE IF b.suit = "hearts" /\ a.suit # "hearts" THEN FALSE
    ELSE b.value - a.value < 0

RECURSIVE InsertPass(_, _)
InsertPass(c, s) ==
    IF s = <<>> THEN <<c>>
    ELSE IF PassBefore(Head(s), c) \/ ~PassBefore(c, Head(s))
         THEN <<Head(s)>> \o InsertPass(c, Tail(s))
         ELSE <<c>> \o s

RECURSIVE SortForPass(_)
SortForPass(hand) ==
    IF hand = <<>> THEN <<>>
    ELSE InsertPass(Last(hand), SortForPass(ButLast(hand)))

computerSelectPassCards(player) == SliceTo(SortForPass(player.hand), PASS_COUNT)

\* The selections a player submits: the computer's choice, or for the human
\* player also the first three cards of the hand.
PassChoices(player) ==
    IF Len(player.hand) < PASS_COUNT THEN {}
    ELSE {computerSelectPassCards(player)}
         \cup (IF player.human THEN {SliceTo(player.hand, PASS_COUNT)} ELSE {})

\* The calls of a game played by the rules: a player submits one selection
\* in the passing phase, executePassPhase is called in the passing phase,
\* and the player at currentPlayerIndex plays in the playing phase.
MayPass(state, playerId) ==
    state.phase = "passing" /\ Len(HPlayer(state, playerId).passedCards) = 0

MayExecutePass(state) == state.phase = "passing"

MayPlay(state, playerId) ==
    state.phase = "playing" /\ state.currentPlayerIndex = playerId

\* Under SpecHeartsAnyCall playCard is called by any player in any phase,
\* and the calls are followed until the first trick of the round is taken.
AnyCall(state) == NoTricksTaken(state)

HeartsInit ==
    /\ \E start \in HeartsStarts, k \in HeartsDeals : hearts = HeartsRoundStart(start, k)
    /\ heartsArg = Scores(hearts)
    /\ solitaireIdle
    /\ assholeIdle
    /\ pokerIdle
    /\ blackjackIdle
    /\ deckIdle

PassCardsBy(playerId, cards) ==
    LET r == passCards(hearts, playerId, cards)
    IN  /\ r.ok
        /\ hearts' = r.state
        /\ heartsArg' = Scores(hearts)
        /\ heartsOnly

ExecutePass ==
    /\ hearts' = executePassPhase(hearts)
    /\ heartsArg' = Scores(hearts)
    /\ heartsOnly

PlayCardBy(playerId, card, k) ==
    LET r == HeartsPlayCard(hearts, playerId, card, k)
    IN  /\ r.ok
        /\ hearts' = r.state
        /\ heartsArg' = PlayCardArgument(hearts, playerId, card)
        /\ heartsOnly

PassCards ==
    /\ InExploredRound(hearts)
    /\ \E playerId \in Players4 :
          /\ MayPass(hearts, playerId)
          /\ \E cards \in PassChoices(HPlayer(hearts, playerId)) :
                PassCardsBy(playerId, cards)

ExecutePassPhase ==
    /\ InExploredRound(hearts)
    /\ MayExecutePass(hearts)
    /\ ExecutePass

PlayCard ==
    /\ InExploredRound(hearts)
    /\ \E playerId \in Players4 :
          /\ MayPlay(hearts, playerId)
          /\ \E j \in DOMAIN HPlayer(hearts, playerId).hand, k \in HeartsDeals :
                PlayCardBy(playerId, HPlayer(hearts, playerId).hand[j], k)

HeartsNext ==
    \/ PassCards
    \/ ExecutePassPhase
    \/ PlayCard

\* Hearts played by the rules of turn and phase.
SpecHearts == HeartsInit /\ [][HeartsNext]_vars

AnyPassCards == AnyCall(hearts) /\ PassCards

AnyExecutePassPhase == AnyCall(hearts) /\ ExecutePassPhase

AnyPlayCard ==
    /\ InExploredRound(hearts)
    /\ AnyCall(hearts)
    /\ \E playerId \in Players4 :
          \E j \in DOMAIN HPlayer(hearts, playerId).hand, k \in HeartsDeals :
             PlayCardBy(playerId, HPlayer(hearts, playerId).hand[j], k)

HeartsAnyNext ==
    \/ AnyPassCards
    \/ AnyExecutePassPhase
    \/ AnyPlayCard

\* Hearts under every call its functions accept, whoever makes it.
SpecHeartsAnyCall == HeartsInit /\ [][HeartsAnyNext]_vars

\* The cards of a hearts state: hands, pending passedCards, the current
\* trick and the tricks taken.
HeartsAllCards(state) ==
    Flatten([i \in 1..4 |-> state.players[i].hand])
      \o Flatten([i \in 1..4 |-> state.players[i].passedCards])
      \o [j \in 1..Len(state.currentTrick) |-> state.currentTrick[j].card]
      \o Flatten([i \in 1..4 |-> Flatten(state.players[i].tricks)])

\* C2 (as claimed): in every reachable hearts state every card dealt for
\* the round appears exactly once across the hands, the pending
\* passedCards, the current trick and the tricks taken, also in the state
\* that ends the game.
C2_HeartsCardsConserved ==
    LET all == HeartsAllCards(hearts)
    IN  /\ Len(all) = Len(HeartsDeck)
        /\ \A i \in DOMAIN HeartsDeck : Count(all, HeartsDeck[i]) = 1

\* C4 (as claimed): no hearts call changes the state it is given; after the
\* call the scores of the argument read as they did before it.
C4_PlayCardKeepsArgument ==
    [][heartsArg' = Scores(hearts)]_<<hearts, heartsArg>>

\* C5 (as claimed): playCard is rejected for a player who is not at
\* currentPlayerIndex or in a phase other than 'playing'; so every step
\* that puts a card in the current trick is made in phase 'playing' by the
\* player at currentPlayerIndex, and the trick never holds two cards of one
\* player.
C5_PlayRejectedOutOfTurn ==
    [][Len(hearts'.currentTrick) = Len(hearts.currentTrick) + 1 =>
          /\ hearts.phase = "playing"
          /\ Last(hearts'.currentTrick).playerId = hearts.currentPlayerIndex
          /\ \A j \in DOMAIN hearts.currentTrick :
                hearts.currentTrick[j].playerId # Last(hearts'.currentTrick).playerId
      ]_<<hearts, heartsArg>>

\* C20 (as claimed): in every state with phase 'playing' reached by
\* in-turn play, in any round, the player at currentPlayerIndex holds a card
\* that isValidPlay accepts: getValidPlays is not empty and
\* computerSelectCard returns a card of that player's hand.
C20_PlayerToActCanPlay ==
    hearts.phase = "playing" =>
        LET playerId == hearts.currentPlayerIndex
            hand == HPlayer(hearts, playerId).hand
        IN  /\ \E j \in DOMAIN hand : HeartsIsValidPlay(hearts, playerId, hand[j])
            /\ getValidPlays(hearts, playerId) # <<>>
            /\ computerSelectCard(hearts, playerId) # NoCard
            /\ InCards(hand, computerSelectCard(hearts, playerId))

\* Reference for C26, from the rules as the claim lists them: the cards of
\* a hand as a set, and the plays the rules allow.
HandSet(state, playerId) ==
    {HPlayer(state, playerId).hand[j] : j \in DOMAIN HPlayer(state, playerId).hand}

IsPointCard(c) == c.suit = "hearts" \/ IsQueenOfSpades(c)

RuleAllows(state, playerId, card) ==
    LET hand == HandSet(state, playerId)
        leading == Len(state.currentTrick) = 0
        firstTrick == \A i \in Players4 : HPlayer(state, i).tricks = <<>>
    IN  /\ card \in hand
        /\ (state.roundNumber = 1 /\ firstTrick /\ Card("clubs", TWO) \in hand)
              => card = Card("clubs", TWO)
        /\ (~leading /\ \E c \in hand : c.suit = state.leadSuit)
              => card.suit = state.leadSuit
        /\ (leading /\ card.suit = "hearts" /\ ~state.heartsBroken)
              => \A c \in hand : c.suit = "hearts"
        /\ (firstTrick /\ IsPointCard(card)) => \A c \in hand : IsPointCard(c)

\* C26: isValidPlay accepts a card exactly when the card is in the hand, a
\* holder of the two of clubs plays it on the very first trick of the game,
\* the card follows the lead suit if the hand can, a heart is not led
\* while hearts are unbroken unless the hand holds only hearts, and on a
\* first trick no heart or queen of spades is played unless the hand holds
\* nothing else; playCard succeeds only for accepted cards and otherwise
\* returns no state.
C26_IsValidPlay ==
    \A playerId \in Players4 :
       \A j \in DOMAIN HeartsDeck :
          /\ HeartsIsValidPlay(hearts, playerId, HeartsDeck[j])
                <=> RuleAllows(hearts, playerId, HeartsDeck[j])
          /\ \A k \in HeartsDeals :
                IF RuleAllows(hearts, playerId, HeartsDeck[j])
                THEN hearts.phase = "playing"
                        => HeartsPlayCard(hearts, playerId, HeartsDeck[j], k).ok
                ELSE HeartsPlayCard(hearts, playerId, HeartsDeck[j], k) = Fail

\* C26 witness: one card of the first trick of a round is on the table, and
\* the player to act, who cannot follow suit, holds a heart that is refused
\* and another card that is accepted.
C26_Witness ==
    /\ hearts.phase = "playing"
    /\ Len(hearts.currentTrick) = 1
    /\ NoTricksTaken(hearts)
    /\ LET playerId == hearts.currentPlayerIndex
           hand == HandSet(hearts, playerId)
       IN  /\ \A c \in hand : c.suit # hearts.leadSuit
           /\ \E c \in hand : c.suit = "hearts" /\ ~HeartsIsValidPlay(hearts, playerId, c)
           /\ \E c \in hand : ~IsPointCard(c) /\ HeartsIsValidPlay(hearts, playerId, c)

\* The moves of the phase along passing -> playing -> roundEnd -> gameEnd
\* (a round without a pass goes from roundEnd to playing).
PhaseMoves ==
    {<<"passing", "passing">>, <<"passing", "playing">>,
     <<"playing", "playing">>, <<"playing", "roundEnd">>,
     <<"roundEnd", "roundEnd">>, <<"roundEnd", "passing">>, <<"roundEnd", "playing">>,
     <<"roundEnd", "gameEnd">>}

\* C28 (as claimed): the phase only moves along passing -> playing ->
\* roundEnd -> gameEnd; the next round starts, and the game ends, from a
\* state in phase 'roundEnd', never from a state in phase 'playing'.
C28_PhaseOrder ==
    [][/\ <<hearts.phase, hearts'.phase>> \in PhaseMoves
       /\ hearts'.roundNumber # hearts.roundNumber => hearts.phase = "roundEnd"
      ]_<<hearts>>

\* Reference for C10, from the rules and not from completeTrick's loop:
\* the trick made of the three cards on the table and the card played.
FullTrick(state, playerId, card) ==
    Append(state.currentTrick, [playerId |-> playerId, card |-> card])

\* The player whose card is of the suit led and is beaten by no other card
\* of that suit in the trick.
RuleWinner(trick) ==
    LET lead == trick[1].card.suit
    IN  CHOOSE w \in Players4 :
           \E j \in DOMAIN trick :
              /\ trick[j].playerId = w
              /\ trick[j].card.suit = lead
              /\ \A l \in DOMAIN trick :
                    trick[l].card.suit = lead => trick[l].card.value <= trick[j].card.value

RulePoints(trick) ==
    Cardinality({j \in DOMAIN trick : trick[j].card.suit = "hearts"})
      + (IF \E j \in DOMAIN trick : IsQueenOfSpades(trick[j].card) THEN 13 ELSE 0)

\* What C10 says of one step in which playerId plays card as fourth card.
TrickResolved(playerId, card) ==
    LET trick == FullTrick(hearts, playerId, card)
        w == RuleWinner(trick)
        before == HPlayer(hearts, w)
        after == HPlayer(hearts', w)
        trickCards == [j \in 1..4 |-> trick[j].card]
        lastOfRound == \A i \in Players4 :
                          Len(SelectSeq(HPlayer(hearts, i).hand, LAMBDA h : h # card)) = 0
    IN  IF ~lastOfRound
        THEN \* the round goes on
             /\ after.roundScore = before.roundScore + RulePoints(trick)
             /\ after.tricks = Append(before.tricks, trickCards)
             /\ \A i \in Players4 \ {w} :
                   /\ HPlayer(hearts', i).roundScore = HPlayer(hearts, i).roundScore
                   /\ HPlayer(hearts', i).tricks = HPlayer(hearts, i).tricks
             /\ hearts'.currentPlayerIndex = w
             /\ hearts'.currentTrick = <<>>
             /\ hearts'.phase = "playing"
        ELSE \* the trick ended the round: the round is settled from the
             \* state in which the trick is credited as above
             LET played == CardPlayed(hearts, playerId, card)
                 credited == [played.players EXCEPT ![w + 1] =
                                 [@ EXCEPT !.tricks = Append(@, trickCards),
                                           !.roundScore = @ + RulePoints(trick)]]
             IN  /\ \E k \in HeartsDeals :
                       hearts' = completeRound([played EXCEPT !.players = credited], k)
                 /\ hearts'.phase = "gameEnd" =>
                       /\ after.roundScore = before.roundScore + RulePoints(trick)
                       /\ after.tricks = Append(before.tricks, trickCards)

\* C10: when the fourth card of a trick is played, the trick goes to the
\* player whose card has the greatest value among the cards of the suit led
\* (never a card of another suit); that player's round score grows by 1 per
\* heart plus 13 for the queen of spades, the four cards join that player's
\* tricks, and that player leads the next trick of the round.  The trick
\* that empties the hands is credited the same way in the state from which
\* the round is settled.
C10_TrickResolution ==
    [][\A playerId \in Players4 :
          \A j \in DOMAIN HPlayer(hearts, playerId).hand :
             \A k \in HeartsDeals :
                LET card == HPlayer(hearts, playerId).hand[j]
                    r == HeartsPlayCard(hearts, playerId, card, k)
                IN  (/\ Len(hearts.currentTrick) = 3
                     /\ MayPlay(hearts, playerId)
                     /\ r.ok
                     /\ hearts' = r.state)
                    => TrickResolved(playerId, card)]_<<hearts, heartsArg>>

\* C10 witness: a trick with points was taken by the highest card of the
\* suit led although it holds a higher card of another suit.
C10_Witness ==
    \E i \in 1..4 :
       \E t \in DOMAIN hearts.players[i].tricks :
          LET trick == hearts.players[i].tricks[t]
              lead == trick[1].suit
          IN  /\ Len(trick) = 4
              /\ calculateTrickPoints(trick) > 0
              /\ \E a \in 1..4, b \in 1..4 :
                    /\ trick[a].suit # lead
                    /\ trick[b].suit = lead
                    /\ \A l \in 1..4 : trick[l].suit = lead => trick[l].value <= trick[b].value
                    /\ trick[a].value > trick[b].value
              /\ hearts.players[i].roundScore >= calculateTrickPoints(trick)
              /\ hearts.phase = "playing"

\* C29: when the fourth card of a trick is played and the trick holds the
\* Ace of the suit led, the player who played that Ace takes the trick and
\* leads the next trick of the round (the Ace is the highest card of its
\* suit, the 2 the lowest).
C29_AceWinsTrick ==
    [][\A playerId \in Players4 :
          \A j \in DOMAIN HPlayer(hearts, playerId).hand :
             \A k \in HeartsDeals :
                LET card == HPlayer(hearts, playerId).hand[j]
                    r == HeartsPlayCard(hearts, playerId, card, k)
                    trick == FullTrick(hearts, playerId, card)
                IN  (/\ Len(hearts.currentTrick) = 3
                     /\ MayPlay(hearts, playerId)
                     /\ r.ok
                     /\ hearts' = r.state
                     /\ hearts'.roundNumber = hearts.roundNumber
                     /\ hearts'.phase = "playing")
                    => \A a \in 1..4 :
                          (/\ trick[a].card.suit = trick[1].card.suit
                           /\ trick[a].card.value = ACE)
                          => hearts'.currentPlayerIndex = trick[a].playerId]_<<hearts, heartsArg>>

----------------------------------------------------------------------------
(* The last card of a hearts round played with the 52 cards of createDeck: *)
(* the states in which three cards are on the table and the player to act  *)
(* holds the one card left.  The 13 hearts and the queen of spades lie in  *)
(* the tricks taken as the round's points were taken; the round is one     *)
(* without passing.                                                        *)

\* Cumulative scores the round started from.
RoundEndScores == {0, 80}

\* A round whose pass direction is 'none'.
RoundEndNumber == 8

\* hearts[i]: the number of hearts player i - 1 took; queen: the index of
\* the player who took the queen of spades.
RoundEndPoints ==
    {[hearts |-> h, queen |-> q] :
        h \in {c \in [1..4 -> 0..KING] : c[1] + c[2] + c[3] + c[4] = KING},
        q \in 1..4}

PointCards == SelectSeq(createDeck, LAMBDA c : calculateTrickPoints(<<c>>) > 0)

PlainCards == SelectSeq(createDeck, LAMBDA c : calculateTrickPoints(<<c>>) = 0)

\* The point cards player i - 1 took.
PointsTaken(points, i) ==
    LET h == points.hearts
        before == IF i = 1 THEN 0
                  ELSE IF i = 2 THEN h[1]
                  ELSE IF i = 3 THEN h[1] + h[2]
                  ELSE h[1] + h[2] + h[3]
    IN  SubSeq(PointCards, before + 1, before + h[i])
          \o (IF points.queen = i THEN <<Card("spades", QUEEN)>> ELSE <<>>)

\* The number of tricks player i - 1 took: players 1..3 the tricks that
\* hold their point cards, player 0 the rest of the 13.
TricksTakenBy(points, i) ==
    LET n(j) == (Len(PointsTaken(points, j)) + 3) \div 4
    IN  IF i = 1 THEN KING - (n(2) + n(3) + n(4)) ELSE n(i)

\* The cards of the tricks of player i - 1: the point cards, then cards
\* without points.
CardsTakenBy(points, i) ==
    LET plain(j) == 4 * TricksTakenBy(points, j) - Len(PointsTaken(points, j))
        before == IF i = 1 THEN 0
                  ELSE IF i = 2 THEN plain(1)
                  ELSE IF i = 3 THEN plain(1) + plain(2)
                  ELSE plain(1) + plain(2) + plain(3)
    IN  PointsTaken(points, i) \o SubSeq(PlainCards, before + 1, before + plain(i))

TricksOf(cards) == [t \in 1..(Len(cards) \div 4) |-> SubSeq(cards, 4 * t - 3, 4 * t)]

\* The last trick of the round is the last trick of player 0, played in
\* the order that makes player 0 its winner.
LastTrick(points) ==
    LET cards == Last(TricksOf(CardsTakenBy(points, 1)))
        w == CHOOSE j \in 1..4 :
                /\ cards[j].suit = cards[1].suit
                /\ \A l \in 1..4 : cards[l].suit = cards[1].suit
                                      => cards[l].value <= cards[j].value
    IN  [j \in 1..4 |-> [playerId |-> (j + 4 - w) % 4, card |-> cards[j]]]

LastCardState(points, scores) ==
    LET trick == LastTrick(points)
        last == trick[4]
        taken(i) == IF i = 1 THEN ButLast(TricksOf(CardsTakenBy(points, 1)))
                    ELSE TricksOf(CardsTakenBy(points, i))
    IN  [players |-> [i \in 1..4 |->
                        [human |-> i = 1,
                         hand |-> IF last.playerId = i - 1 THEN <<last.card>> ELSE <<>>,
                         tricks |-> taken(i),
                         score |-> scores[i],
                         roundScore |-> calculateTrickPoints(PointsTaken(points, i)),
                         passedCards |-> <<>>,
                         receivedCards |-> <<>>]],
         currentPlayerIndex |-> last.playerId,
         currentTrick |-> ButLast(trick),
         leadSuit |-> trick[1].card.suit,
         heartsBroken |-> TRUE,
         phase |-> "playing",
         passDirection |-> PASS_DIRECTIONS[((RoundEndNumber - 1) % 4) + 1],
         roundNumber |-> RoundEndNumber,
         gameScore |-> GAME_SCORE]

LastCardInit ==
    /\ \E points \in RoundEndPoints, scores \in [1..4 -> RoundEndScores] :
          hearts = LastCardState(points, scores)
    /\ heartsArg = Scores(hearts)
    /\ solitaireIdle
    /\ assholeIdle
    /\ pokerIdle
    /\ blackjackIdle
    /\ deckIdle

\* The player to act plays the last card of the round.
PlayLastCard ==
    /\ hearts.roundNumber = RoundEndNumber
    /\ \E playerId \in Players4 :
          /\ MayPlay(hearts, playerId)
          /\ \E j \in DOMAIN HPlayer(hearts, playerId).hand, k \in HeartsDeals :
                PlayCardBy(playerId, HPlayer(hearts, playerId).hand[j], k)

SpecHeartsRoundEnd == LastCardInit /\ [][PlayLastCard]_vars

\* The points player i took in the round that the card played by the
\* player to act ends: the round score so far and, for the winner of the
\* last trick, the points of that trick.
RoundPointsOf(i) ==
    LET playerId == hearts.currentPlayerIndex
        trick == FullTrick(hearts, playerId, HPlayer(hearts, playerId).hand[1])
    IN  HPlayer(hearts, i).roundScore
          + (IF RuleWinner(trick) = i THEN RulePoints(trick) ELSE 0)

\* The hands hold one card, that of the player to act, who plays fourth.
LastCardOfRound ==
    /\ hearts.phase = "playing"
    /\ Len(hearts.currentTrick) = 3
    /\ \A i \in Players4 :
          Len(HPlayer(hearts, i).hand) = (IF i = hearts.currentPlayerIndex THEN 1 ELSE 0)

\* C11: at the end of every round, if one player took all 26 points of the
\* round that player's cumulative score is unchanged and each of the other
\* three gains exactly 26; otherwise each player's cumulative score grows
\* by exactly the points that player took in the round.
C11_RoundScoring ==
    [][(LastCardOfRound /\ hearts' # hearts) =>
          LET shooters == {i \in Players4 : RoundPointsOf(i) = 26}
          IN  \A i \in Players4 :
                 HPlayer(hearts', i).score =
                     HPlayer(hearts, i).score
                       + (IF shooters # {}
                          THEN (IF i \in shooters THEN 0 ELSE 26)
                          ELSE RoundPointsOf(i))
      ]_<<hearts, heartsArg>>

\* C11 witness: the game ended on a round in which one player took the 26
\* points and stays at 80 while a player who had 80 stands at 106 and a
\* player who had 0 at 26.
C11_Witness ==
    /\ hearts.phase = "gameEnd"
    /\ hearts.roundNumber = RoundEndNumber
    /\ \E i \in Players4, j \in Players4, l \in Players4 :
          /\ HPlayer(hearts, i).roundScore = 26
          /\ HPlayer(hearts, i).score = 80
          /\ HPlayer(hearts, j).roundScore = 0
          /\ HPlayer(hearts, j).score = 106
          /\ HPlayer(hearts, l).roundScore = 0
          /\ HPlayer(hearts, l).score = 26

\* C12: the phase becomes 'gameEnd' exactly at the end of a round after
\* which some player's cumulative score is at least gameScore; in
\* 'gameEnd' getWinner returns a player whose cumulative score is minimal,
\* and in every other phase it returns no winner.
C12_GameEnd ==
    /\ [](LET reached == \E i \in Players4 : HPlayer(hearts, i).score >= hearts.gameScore
              winner == getWinner(hearts)
          IN  /\ hearts.phase = "gameEnd" <=> reached
              /\ hearts.phase = "gameEnd" =>
                    /\ winner \in Players4
                    /\ \A i \in Players4 :
                          HPlayer(hearts, winner).score <= HPlayer(hearts, i).score
              /\ hearts.phase # "gameEnd" => winner = -1)
    /\ [][(hearts'.phase = "gameEnd" /\ hearts.phase # "gameEnd") => LastCardOfRound
         ]_<<hearts, heartsArg>>

\* C12 witness: the game ended with a player exactly at gameScore, and the
\* winner is not the first player.
C12_Witness ==
    /\ hearts.phase = "gameEnd"
    /\ \E i \in Players4 : HPlayer(hearts, i).score = hearts.gameScore
    /\ getWinner(hearts) > 0
    /\ HPlayer(hearts, getWinner(hearts)).score < HPlayer(hearts, 0).score

----------------------------------------------------------------------------
(* The passing phase with the hands of the program: 52 cards, 13 to each  *)
(* player, in a round of each passing direction.  passCards has no memory  *)
(* of an earlier selection, so a player can submit again before the       *)
(* exchange.                                                              *)

FULL_HAND == 13

\* The rounds whose pass is explored (left, right, across) and the
\* submissions each player makes at most.
PassRounds == {1, 2, 3}
MaxSubmissions == 2
PassDeals == {3, 7}

\* The state at the start of round r dealt with shuffle k: createHeartsGame
\* for the first round, startNewRound's result for the others.
PassStart(r, k) ==
    LET deck == shuffleDeck(createDeck, k)
        players == [i \in 1..4 |->
                      [human |-> i = 1,
                       hand |-> sortCards(SubSeq(deck, (i - 1) * FULL_HAND + 1, i * FULL_HAND)),
                       tricks |-> <<>>,
                       score |-> IF i <= 2 THEN FULL_HAND * (r - 1) ELSE 0,
                       roundScore |-> 0,
                       passedCards |-> <<>>,
                       receivedCards |-> <<>>]]
    IN  [players |-> players,
         currentPlayerIndex |-> findTwoOfClubs(players),
         currentTrick |-> <<>>,
         leadSuit |-> "none",
         heartsBroken |-> FALSE,
         phase |-> "passing",
         passDirection |-> PASS_DIRECTIONS[((r - 1) % 4) + 1],
         roundNumber |-> r,
         gameScore |-> GAME_SCORE]

PassInit ==
    /\ \E r \in PassRounds, k \in PassDeals : hearts = PassStart(r, k)
    /\ heartsArg = Scores(hearts)
    /\ solitaireIdle
    /\ assholeIdle
    /\ pokerIdle
    /\ blackjackIdle
    /\ deckIdle

\* The submissions a player has made, read off the hand.
Submissions(player) == (FULL_HAND - Len(player.hand)) \div PASS_COUNT

\* A player submits a selection, for the first time or again.
SubmitPass ==
    /\ hearts.phase = "passing"
    /\ \E playerId \in Players4 :
          /\ Submissions(HPlayer(hearts, playerId)) < MaxSubmissions
          /\ \E cards \in PassChoices(HPlayer(hearts, playerId)) :
                PassCardsBy(playerId, cards)

\* executePassPhase is called, whether or not every player has submitted.
ExchangePass ==
    /\ hearts.phase = "passing"
    /\ ExecutePass

PassNext ==
    \/ SubmitPass
    \/ ExchangePass

SpecHeartsPass == PassInit /\ [][PassNext]_vars

AllPending(state) == \A i \in Players4 : Len(HPlayer(state, i).passedCards) = PASS_COUNT

\* The player whose cards player i receives under a direction.
PassSource(direction, i) ==
    CASE direction = "left" -> (i + 3) % 4
      [] direction = "right" -> (i + 1) % 4
      [] direction = "across" -> (i + 2) % 4

AsSet(cards) == {cards[j] : j \in DOMAIN cards}

\* C27 (as claimed): executePassPhase returns the state unchanged unless
\* all four players have 3 pending pass cards; when they have, each
\* player's 3 cards go to the player to the left (index + 1), right
\* (index + 3) or across (index + 2), every player ends with exactly 13
\* cards and no pending pass cards, the phase becomes 'playing' and
\* currentPlayerIndex is the player who now holds the two of clubs.
C27_ExecutePassPhase ==
    LET after == executePassPhase(hearts)
    IN  IF ~AllPending(hearts) THEN after = hearts
        ELSE /\ \A i \in Players4 :
                   LET from == PassSource(hearts.passDirection, i)
                   IN  /\ AsSet(HPlayer(after, i).hand)
                            = AsSet(HPlayer(hearts, i).hand)
                                \cup AsSet(HPlayer(hearts, from).passedCards)
                       /\ Len(HPlayer(after, i).hand) = FULL_HAND
                       /\ HPlayer(after, i).passedCards = <<>>
             /\ after.phase = "playing"
             /\ InCards(HPlayer(after, after.currentPlayerIndex).hand, Card("clubs", TWO))

----------------------------------------------------------------------------
(* President (lib/games/asshole, AssholeState).  The deck is scaled to    *)
(* PresDeck; createAssholeGame's 52 is the length of the deck dealt.  null *)
(* is 0 for currentRank and finishOrder, -1 for lastPlayedBy and "none"    *)
(* for a player's rank.                                                    *)

PresDeck ==
    <<Card("hearts", ACE), Card("hearts", TWO), Card("hearts", THREE), Card("hearts", KING),
      Card("clubs", ACE), Card("clubs", TWO), Card("clubs", THREE), Card("clubs", KING),
      Card("spades", ACE), Card("spades", TWO), Card("spades", THREE), Card("spades", KING)>>

\* The numbers of players (playerNames.length) and the shuffles dealt.
PresPlayerCounts == {3, 4}
PresDeals == {1, 2}

ACE_RANK == 14
TWO_RANK == 15

\* CARD_RANKS: 3 lowest ... K, then A, then 2.
getCardRank(card) ==
    IF card.value = ACE THEN ACE_RANK
    ELSE IF card.value = TWO THEN TWO_RANK
    ELSE card.value

APlayerIds(state) == 0..(Len(state.players) - 1)

APlayer(state, i) == state.players[i + 1]

IsThreeOfClubs(c) == c.suit = "clubs" /\ c.value = THREE

\* findIndex of the holder of the 3 of clubs, 0 when nobody holds it.
AssholeStarter(players) ==
    LET holders == {i \in 0..(Len(players) - 1) :
                       \E j \in DOMAIN players[i + 1].hand :
                          IsThreeOfClubs(players[i + 1].hand[j])}
    IN  IF holders = {} THEN 0
        ELSE CHOOSE i \in holders : \A j \in holders : i <= j

AssholeDealtHand(deck, index, cardsPerPlayer) ==
    sortCards(SubSeq(deck, index * cardsPerPlayer + 1, (index + 1) * cardsPerPlayer))

createAssholeGame(playerCount, k) ==
    LET deck == shuffleDeck(PresDeck, k)
        cardsPerPlayer == Len(PresDeck) \div playerCount
        players == [i \in 1..playerCount |->
                      [hand |-> AssholeDealtHand(deck, i - 1, cardsPerPlayer),
                       rank |-> "none",
                       finishOrder |-> 0,
                       hasPassed |-> FALSE]]
    IN  [players |-> players,
         currentPlayerIndex |-> AssholeStarter(players),
         pile |-> <<>>,
         lastPlayedBy |-> -1,
         currentRank |-> 0,
         currentCount |-> 0,
         consecutivePasses |-> 0,
         phase |-> "playing",
         roundNumber |-> 1,
         finishCount |-> 0]

\* cards: a non-empty or empty sequence of cards.
AssholeIsValidPlay(state, playerId, cards) ==
    IF playerId \notin APlayerIds(state) THEN FALSE
    ELSE IF Len(cards) = 0 THEN FALSE
    ELSE
    LET player == APlayer(state, playerId)
        rank == getCardRank(cards[1])
    IN  /\ \A j \in DOMAIN cards : getCardRank(cards[j]) = rank
        /\ \A j \in DOMAIN cards : InCards(player.hand, cards[j])
        /\ \/ state.currentRank = 0
           \/ /\ Len(cards) = state.currentCount
              /\ rank > state.currentRank

\* findNextPlayer's loop: skip the players without cards, at most
\* players.length times.
RECURSIVE SkipFinished(_, _, _)
SkipFinished(players, next, attempts) ==
    IF Len(players[next + 1].hand) = 0 /\ attempts < Len(players)
    THEN SkipFinished(players, (next + 1) % Len(players), attempts + 1)
    ELSE next

\* currentIndex >= -1 wherever the source calls it: pass requires a
\* currentRank, which only a play sets, together with lastPlayedBy.
findNextPlayer(players, currentIndex) ==
    SkipFinished(players, (currentIndex + 1) % Len(players), 0)

\* Mutant of FinishRank: no vice ranks.
FinishRankNoVice(finishOrder, totalPlayers) ==
    IF finishOrder = 1 THEN "president"
    ELSE IF finishOrder = totalPlayers THEN "asshole"
    ELSE "neutral"

\* The rank given to the player finishing as finishOrder-th of totalPlayers.
FinishRank(finishOrder, totalPlayers) ==
    IF finishOrder = 1 THEN "president"
    ELSE IF finishOrder = 2 /\ totalPlayers >= 4 THEN "vice-president"
    ELSE IF finishOrder = totalPlayers - 1 /\ totalPlayers >= 4 THEN "vice-asshole"
    ELSE IF finishOrder = totalPlayers THEN "asshole"
    ELSE "neutral"

ActivePlayers(players) == {i \in 0..(Len(players) - 1) : Len(players[i + 1].hand) > 0}

playCards(state, playerId, cards) ==
    IF ~AssholeIsValidPlay(state, playerId, cards) THEN Fail
    ELSE
    LET totalPlayers == Len(state.players)
        newHand == Without(APlayer(state, playerId).hand, cards)
        finished == Len(newHand) = 0
        finishOrder == state.finishCount + 1
        played == [state.players EXCEPT ![playerId + 1] =
                      [@ EXCEPT !.hand = newHand,
                                !.hasPassed = FALSE,
                                !.finishOrder = IF finished THEN finishOrder ELSE @,
                                !.rank = IF finished
                                         THEN FinishRank(finishOrder, totalPlayers)
                                         ELSE @]]
        rank == getCardRank(cards[1])
        clearedByTwo == rank = TWO_RANK
        activePlayers == ActivePlayers(played)
    IN  IF Cardinality(activePlayers) <= 1
        THEN \* round over: the last player with cards is the asshole
             LET newPlayers ==
                     IF Cardinality(activePlayers) = 1
                     THEN LET lastPlayer == CHOOSE i \in activePlayers : TRUE
                          IN  [played EXCEPT ![lastPlayer + 1] =
                                  [@ EXCEPT !.finishOrder = totalPlayers,
                                            !.rank = "asshole"]]
                     ELSE played
             IN  Ok([state EXCEPT !.players = newPlayers,
                                  !.phase = "roundEnd"])
        ELSE Ok([state EXCEPT
                    !.players = played,
                    !.pile = Append(@, cards),
                    !.lastPlayedBy = playerId,
                    !.currentRank = IF clearedByTwo THEN 0 ELSE rank,
                    !.currentCount = IF clearedByTwo THEN 0 ELSE Len(cards),
                    !.consecutivePasses = 0,
                    !.currentPlayerIndex = IF clearedByTwo THEN playerId
                                           ELSE findNextPlayer(played, playerId),
                    !.finishCount = IF finished THEN @ + 1 ELSE @])

\* pass(state, playerId)
AssholePass(state, playerId) ==
    IF playerId \notin APlayerIds(state) THEN Fail
    ELSE IF state.currentRank = 0 THEN Fail
    ELSE
    LET newPlayers == [state.players EXCEPT ![playerId + 1].hasPassed = TRUE]
        newConsecutivePasses == state.consecutivePasses + 1
        activePlayers == ActivePlayers(newPlayers)
    IN  IF newConsecutivePasses >= Cardinality(activePlayers) - 1
        THEN \* the pile is cleared and the last player to play starts
             Ok([state EXCEPT
                    !.players = [i \in DOMAIN newPlayers |->
                                    [newPlayers[i] EXCEPT !.hasPassed = FALSE]],
                    !.pile = <<>>,
                    !.currentRank = 0,
                    !.currentCount = 0,
                    !.consecutivePasses = 0,
                    !.currentPlayerIndex =
                        findNextPlayer(newPlayers, state.lastPlayedBy - 1)])
        ELSE Ok([state EXCEPT
                    !.players = newPlayers,
                    !.consecutivePasses = newConsecutivePasses,
                    !.currentPlayerIndex = findNextPlayer(newPlayers, playerId)])

\* The selections a player can submit: the non-empty sub-sequences of the
\* hand, in hand order.
RECURSIVE SubSeqs(_)
SubSeqs(cards) ==
    IF cards = <<>> THEN {<<>>}
    ELSE LET rest == SubSeqs(Tail(cards))
         IN  rest \cup {<<Head(cards)>> \o r : r \in rest}

Selections(hand) == SubSeqs(hand) \ {<<>>}

AssholeInit ==
    /\ \E playerCount \in PresPlayerCounts, k \in PresDeals :
          asshole = createAssholeGame(playerCount, k)
    /\ solitaireIdle
    /\ heartsIdle
    /\ pokerIdle
    /\ blackjackIdle
    /\ deckIdle

\* The player to act plays a selection of the hand.
PlayCards ==
    /\ asshole.phase = "playing"
    /\ \E cards \in Selections(APlayer(asshole, asshole.currentPlayerIndex).hand) :
          LET r == playCards(asshole, asshole.currentPlayerIndex, cards)
          IN  r.ok /\ asshole' = r.state
    /\ assholeOnly

\* The player to act passes.
Pass ==
    /\ asshole.phase = "playing"
    /\ LET r == AssholePass(asshole, asshole.currentPlayerIndex)
       IN  r.ok /\ asshole' = r.state
    /\ assholeOnly

AssholeNext ==
    \/ PlayCards
    \/ Pass

\* President played in turn.
SpecPresident == AssholeInit /\ [][AssholeNext]_vars

\* The cards of a president state: the hands and the plays recorded in the
\* pile.
AssholeAllCards(state) ==
    Flatten([i \in DOMAIN state.players |-> state.players[i].hand]) \o Flatten(state.pile)

\* C3 (as claimed): within a round the hands together with the pile hold
\* the cards dealt at the start of the round, each exactly once, also after
\* the pile was cleared by passes and after the play that ends the round.
\* (Both player counts divide the deck, so every card of PresDeck is dealt.)
C3_PresidentCardsConserved ==
    LET all == AssholeAllCards(asshole)
    IN  /\ Len(all) = Len(PresDeck)
        /\ \A i \in DOMAIN PresDeck : Count(all, PresDeck[i]) = 1

\* The selections of 2s the player to act can make.
TwosOf(state) ==
    {cards \in Selections(APlayer(state, state.currentPlayerIndex).hand) :
        \A j \in DOMAIN cards : cards[j].value = TWO}

\* C13 (as claimed): a play consisting only of 2s is accepted against any
\* standing pile of the same count; after it, when the round does not end,
\* the pile is cleared (no cards, no rank and no count left to beat) and
\* the same player is the player to act.
C13_TwosClearPile ==
    /\ [](asshole.phase = "playing" =>
             \A cards \in TwosOf(asshole) :
                (asshole.currentRank # 0 /\ Len(cards) = asshole.currentCount)
                   => playCards(asshole, asshole.currentPlayerIndex, cards).ok)
    /\ [][\A cards \in TwosOf(asshole) :
             LET r == playCards(asshole, asshole.currentPlayerIndex, cards)
             IN  (/\ asshole.phase = "playing"
                  /\ r.ok
                  /\ asshole' = r.state
                  /\ asshole'.phase = "playing")
                 => /\ asshole'.pile = <<>>
                    /\ asshole'.currentRank = 0
                    /\ asshole'.currentCount = 0
                    /\ asshole'.currentPlayerIndex = asshole.currentPlayerIndex
         ]_<<asshole>>

\* C21 (as claimed): in every reachable state with phase 'playing' the
\* player at currentPlayerIndex holds a card, and has an accepted move: a
\* selection playCards accepts, or a pass while a pile stands.
C21_PlayerToActHoldsCards ==
    asshole.phase = "playing" =>
        LET playerId == asshole.currentPlayerIndex
            hand == APlayer(asshole, playerId).hand
        IN  /\ Len(hand) > 0
            /\ \/ \E cards \in Selections(hand) : playCards(asshole, playerId, cards).ok
               \/ asshole.currentRank # 0 /\ AssholePass(asshole, playerId).ok

\* The longest selection submitted to isValidPlay in C30.
MaxPlay == 3

\* The selections submitted: cards of the deck dealt, held or not, of one
\* rank or not, and the empty selection.
PresPlays == {cards \in SubSeqs(PresDeck) : Len(cards) <= MaxPlay}

\* The place of a card in the order 3 < 4 < ... < K < A < 2.
RuleStrength(value) == IF value >= THREE THEN value - 2 ELSE value + 11

\* A standing pile: cards lie on the table.
PileStands(state) == Len(state.pile) > 0

\* The plays the rule accepts: a non-empty set of cards of one rank held by
\* the player; against a standing pile exactly currentCount cards of a rank
\* strictly higher than currentRank.
RuleAccepts(state, playerId, cards) ==
    /\ Len(cards) > 0
    /\ \A j \in DOMAIN cards : InCards(APlayer(state, playerId).hand, cards[j])
    /\ \A j \in DOMAIN cards : cards[j].value = cards[1].value
    /\ PileStands(state) =>
          /\ Len(cards) = state.currentCount
          /\ \E v \in {THREE, KING, ACE, TWO} :
                /\ getCardRank(Card("clubs", v)) = state.currentRank
                /\ RuleStrength(cards[1].value) > RuleStrength(v)

\* C30 (as claimed): while a pile stands, a play is accepted exactly when it
\* consists of currentCount cards held by the player, all of one rank
\* strictly higher than currentRank in the order 3 < ... < K < A < 2; on an
\* empty pile exactly the non-empty sets of same-rank cards held by the
\* player are accepted; every other play is rejected (playCards returns
\* null); and the rank to beat strictly increases from one accepted play to
\* the next while it is set.
C30_AcceptedPlays ==
    /\ [](asshole.phase = "playing" =>
             \A playerId \in APlayerIds(asshole) :
                \A cards \in PresPlays :
                   playCards(asshole, playerId, cards).ok
                      <=> RuleAccepts(asshole, playerId, cards))
    /\ [][(asshole.currentRank # 0 /\ asshole'.currentRank # 0
             /\ asshole'.pile # asshole.pile)
            => asshole'.currentRank > asshole.currentRank]_<<asshole>>

\* The number of players still holding cards.
HoldersCount(state) ==
    Cardinality({i \in APlayerIds(state) : Len(APlayer(state, i).hand) > 0})

\* The player from, the next player holding cards when from has finished.
RuleNextHolder(state, from) ==
    LET n == Len(state.players)
        d == CHOOSE d \in 0..(n - 1) :
                /\ Len(APlayer(state, (from + d) % n).hand) > 0
                /\ \A e \in 0..(d - 1) : Len(APlayer(state, (from + e) % n).hand) = 0
    IN  (from + d) % n

\* What C31 says of pass(state, playerId) in one state.
PassAsRuled(state, playerId) ==
    LET r == AssholePass(state, playerId)
        passes == state.consecutivePasses + 1
    IN  IF ~PileStands(state) THEN ~r.ok
        ELSE /\ r.ok
             /\ IF passes = HoldersCount(state) - 1
                THEN /\ r.state.pile = <<>>
                     /\ r.state.currentRank = 0
                     /\ r.state.currentCount = 0
                     /\ r.state.consecutivePasses = 0
                     /\ \A i \in APlayerIds(state) : ~APlayer(r.state, i).hasPassed
                     /\ r.state.currentPlayerIndex = RuleNextHolder(state, state.lastPlayedBy)
                ELSE /\ r.state.consecutivePasses = passes
                     /\ r.state.pile = state.pile
                     /\ r.state.currentRank = state.currentRank
                     /\ r.state.currentCount = state.currentCount
                     /\ APlayer(r.state, playerId).hasPassed

\* C31 (as claimed): pass is rejected when no pile stands; when a pile
\* stands it is accepted and counts one more consecutive pass, and exactly
\* when the consecutive passes reach (players still holding cards - 1) the
\* pile is cleared, the pass counter and all pass flags are reset, and the
\* last player to have played becomes the player to act (the next player
\* still holding cards if that player has finished).
C31_Pass ==
    asshole.phase = "playing" =>
        \A playerId \in APlayerIds(asshole) : PassAsRuled(asshole, playerId)

----------------------------------------------------------------------------
(* President: the plays offered to a player (getValidPlays) and the play   *)
(* the computer picks (computerSelectPlay).  Card[][] is a sequence of     *)
(* plays; null is NoPlay.                                                  *)

\* combine(0, []): the k-element sub-sequences of cards, lexicographic by
\* index.
RECURSIVE AssholeCombine(_, _)
AssholeCombine(cards, k) ==
    IF k = 0 THEN << <<>> >>
    ELSE IF Len(cards) < k THEN <<>>
    ELSE LET withHead == AssholeCombine(Tail(cards), k - 1)
         IN  [i \in DOMAIN withHead |-> <<Head(cards)>> \o withHead[i]]
               \o AssholeCombine(Tail(cards), k)

AssholeGetCombinations(cards, k) ==
    IF k > Len(cards) THEN <<>>
    ELSE IF k = Len(cards) THEN <<cards>>
    ELSE IF k = 1 THEN [i \in DOMAIN cards |-> <<cards[i]>>]
    ELSE AssholeCombine(cards, k)

\* Mutant of AssholeGetValidPlays: only the whole group of each rank.
AssholeGetValidPlaysWholeGroups(state, playerId) ==
    IF playerId \notin APlayerIds(state) THEN <<>>
    ELSE
    LET hand == APlayer(state, playerId).hand
        firsts == SelectSeq([j \in DOMAIN hand |-> j],
                            LAMBDA j : \A l \in 1..(j - 1) :
                                          getCardRank(hand[l]) # getCardRank(hand[j]))
        group(j) == SelectSeq(hand, LAMBDA c : getCardRank(c) = getCardRank(hand[j]))
        plays(j) ==
            IF state.currentRank = 0 THEN <<group(j)>>
            ELSE IF /\ getCardRank(hand[j]) > state.currentRank
                    /\ Len(group(j)) = state.currentCount
                 THEN <<group(j)>>
                 ELSE <<>>
    IN  Flatten([f \in DOMAIN firsts |-> plays(firsts[f])])

\* getValidPlays(state, playerId).  firsts: the places in the hand where a
\* rank appears first, the keys of cardsByRank in insertion order.
AssholeGetValidPlays(state, playerId) ==
    IF playerId \notin APlayerIds(state) THEN <<>>
    ELSE
    LET hand == APlayer(state, playerId).hand
        firsts == SelectSeq([j \in DOMAIN hand |-> j],
                            LAMBDA j : \A l \in 1..(j - 1) :
                                          getCardRank(hand[l]) # getCardRank(hand[j]))
        group(j) == SelectSeq(hand, LAMBDA c : getCardRank(c) = getCardRank(hand[j]))
        plays(j) ==
            IF state.currentRank = 0
            THEN Flatten([i \in 1..Len(group(j)) |-> AssholeGetCombinations(group(j), i)])
            ELSE IF /\ getCardRank(hand[j]) > state.currentRank
                    /\ Len(group(j)) >= state.currentCount
                 THEN AssholeGetCombinations(group(j), state.currentCount)
                 ELSE <<>>
    IN  Flatten([f \in DOMAIN firsts |-> plays(firsts[f])])

NoPlay == <<>>

\* computerSelectPlay(state, playerId): the first play of the stable sort by
\* rank, then by number of cards.
computerSelectPlay(state, playerId) ==
    LET validPlays == AssholeGetValidPlays(state, playerId)
        before(a, b) == \/ getCardRank(a[1]) < getCardRank(b[1])
                        \/ /\ getCardRank(a[1]) = getCardRank(b[1])
                           /\ Len(a) < Len(b)
    IN  IF Len(validPlays) = 0 THEN NoPlay
        ELSE validPlays[CHOOSE j \in DOMAIN validPlays :
                           /\ \A l \in DOMAIN validPlays : ~before(validPlays[l], validPlays[j])
                           /\ \A l \in 1..(j - 1) : before(validPlays[j], validPlays[l])]

\* Deals in which players hold several cards of a rank (the shuffles of
\* PresDeals spread the ranks over the hands): the deck in the order dealt,
\* by number of players.
PairsDeck(playerCount) ==
    IF playerCount = 3
    THEN <<Card("hearts", THREE), Card("clubs", THREE), Card("spades", THREE), Card("hearts", KING),
           Card("clubs", KING), Card("spades", KING), Card("hearts", ACE), Card("clubs", ACE),
           Card("spades", ACE), Card("hearts", TWO), Card("clubs", TWO), Card("spades", TWO)>>
    ELSE <<Card("hearts", THREE), Card("clubs", THREE), Card("hearts", KING),
           Card("spades", THREE), Card("clubs", KING), Card("spades", KING),
           Card("hearts", ACE), Card("clubs", ACE), Card("hearts", TWO),
           Card("spades", ACE), Card("clubs", TWO), Card("spades", TWO)>>

\* createAssholeGame when the shuffle returns PairsDeck.
PairsDealt(playerCount) ==
    LET dealt == createAssholeGame(playerCount, 1)
        players == [i \in 1..playerCount |->
                      [dealt.players[i] EXCEPT
                          !.hand = AssholeDealtHand(PairsDeck(playerCount), i - 1,
                                                    Len(PresDeck) \div playerCount)]]
    IN  [dealt EXCEPT !.players = players,
                      !.currentPlayerIndex = AssholeStarter(players)]

PresPairsInit ==
    /\ \E playerCount \in PresPlayerCounts : asshole = PairsDealt(playerCount)
    /\ solitaireIdle
    /\ heartsIdle
    /\ pokerIdle
    /\ blackjackIdle
    /\ deckIdle

\* President played in turn from deals with pairs and triples.
SpecPresidentPairs == PresPairsInit /\ [][AssholeNext]_vars

\* The same-rank selections of a hand.
SameRank(hand) ==
    {cards \in Selections(hand) : \A j \in DOMAIN cards : cards[j].value = cards[1].value}

\* What C33 says of one player in one state.
ValidPlaysComplete(state, playerId) ==
    LET validPlays == AssholeGetValidPlays(state, playerId)
        hand == APlayer(state, playerId).hand
        offered == {AsSet(validPlays[j]) : j \in DOMAIN validPlays}
        selected == computerSelectPlay(state, playerId)
    IN  /\ offered = {AsSet(cards) : cards \in
                         {c \in Selections(hand) : AssholeIsValidPlay(state, playerId, c)}}
        /\ \A j \in DOMAIN validPlays :
              /\ AssholeIsValidPlay(state, playerId, validPlays[j])
              /\ Cardinality(AsSet(validPlays[j])) = Len(validPlays[j])
              /\ \A l \in DOMAIN validPlays :
                    AsSet(validPlays[l]) = AsSet(validPlays[j]) => l = j
        /\ offered =
              IF state.currentRank = 0
              THEN {AsSet(cards) : cards \in SameRank(hand)}
              ELSE {AsSet(cards) : cards \in
                       {c \in SameRank(hand) :
                           /\ Len(c) = state.currentCount
                           /\ RuleStrength(c[1].value) > RuleStrength(
                                 CHOOSE v \in {THREE, KING, ACE, TWO} :
                                    getCardRank(Card("clubs", v)) = state.currentRank)}}
        /\ selected = NoPlay <=> Len(validPlays) = 0
        /\ selected # NoPlay => selected \in Range(validPlays)

----------------------------------------------------------------------------
(* President over several rounds: startNewRound deals again, keeps the     *)
(* ranks of the round played and lets the asshole start.                   *)

\* startNewRound(state); k: the shuffle drawn.
AssholeStartNewRound(state, k) ==
    LET deck == shuffleDeck(PresDeck, k)
        playerCount == Len(state.players)
        cardsPerPlayer == Len(PresDeck) \div playerCount
        newPlayers == [i \in 1..playerCount |->
                         [state.players[i] EXCEPT
                             !.hand = AssholeDealtHand(deck, i - 1, cardsPerPlayer),
                             !.finishOrder = 0,
                             !.hasPassed = FALSE]]
        assholes == {i \in 0..(playerCount - 1) : newPlayers[i + 1].rank = "asshole"}
        starterIndex == IF assholes # {}
                        THEN CHOOSE i \in assholes : \A j \in assholes : i <= j
                        ELSE AssholeStarter(newPlayers)
    IN  [state EXCEPT !.players = newPlayers,
                      !.currentPlayerIndex = starterIndex,
                      !.pile = <<>>,
                      !.lastPlayedBy = -1,
                      !.currentRank = 0,
                      !.currentCount = 0,
                      !.consecutivePasses = 0,
                      !.phase = "playing",
                      !.roundNumber = @ + 1,
                      !.finishCount = 0]

\* getWinner(state): the index of the first player ranked president at
\* 'roundEnd', -1 for null.
AssholeGetWinner(state) ==
    IF state.phase # "roundEnd" THEN -1
    ELSE LET presidents == {i \in APlayerIds(state) : APlayer(state, i).rank = "president"}
         IN  IF presidents = {} THEN -1
             ELSE CHOOSE i \in presidents : \A j \in presidents : i <= j

\* The ranks a first round ends with, by number of players (seat 0 first).
PresEndedRanks(playerCount) ==
    IF playerCount = 3 THEN <<"asshole", "neutral", "president">>
    ELSE <<"vice-asshole", "president", "asshole", "vice-president">>

\* The first round at its end, as far as startNewRound reads it: the
\* players with their ranks and the round number.
PresEnded(playerCount) ==
    LET dealt == createAssholeGame(playerCount, 1)
    IN  [dealt EXCEPT
            !.players = [i \in 1..playerCount |->
                            [dealt.players[i] EXCEPT
                                !.hand = <<>>,
                                !.rank = PresEndedRanks(playerCount)[i]]],
            !.phase = "roundEnd"]

\* The rounds explored: the first round of a game, and the second round
\* startNewRound deals after the first.
PresRoundsInit ==
    /\ \E playerCount \in PresPlayerCounts :
          \/ asshole = createAssholeGame(playerCount, 1)
          \/ asshole = AssholeStartNewRound(PresEnded(playerCount), 2)
    /\ solitaireIdle
    /\ heartsIdle
    /\ pokerIdle
    /\ blackjackIdle
    /\ deckIdle

\* President played in turn, in a first and in a second round.
SpecPresidentRounds == PresRoundsInit /\ [][AssholeNext]_vars

\* The rank of the player finishing as order-th of n by the rule.
RuleRank(order, n) ==
    IF order = 1 THEN "president"
    ELSE IF order = n THEN "asshole"
    ELSE IF n >= 4 /\ order = 2 THEN "vice-president"
    ELSE IF n >= 4 /\ order = n - 1 THEN "vice-asshole"
    ELSE "neutral"

\* The players whose hand is empty.
Finished(state) == {i \in APlayerIds(state) : Len(APlayer(state, i).hand) = 0}

\* C32: at 'roundEnd' with N players the finishOrder values are exactly
\* 1..N without repeats; the first to finish is president, the one player
\* left holding cards has finishOrder N and is the asshole, for N >= 4 the
\* second is vice-president and the second-to-last vice-asshole, everyone
\* else neutral; getWinner returns the player who finished first in this
\* round.  The orders are given in the order in which the hands are
\* emptied: a player emptying the hand gets 1 + the number of hands emptied
\* before, and keeps it for the rest of the round.
C32_FinishOrder ==
    /\ [](asshole.phase = "roundEnd" =>
             LET n == Len(asshole.players)
             IN  /\ {APlayer(asshole, i).finishOrder : i \in APlayerIds(asshole)} = 1..n
                 /\ \A i \in APlayerIds(asshole) :
                       /\ APlayer(asshole, i).rank = RuleRank(APlayer(asshole, i).finishOrder, n)
                       /\ Len(APlayer(asshole, i).hand) > 0 <=> APlayer(asshole, i).finishOrder = n
                 /\ AssholeGetWinner(asshole) \in APlayerIds(asshole)
                 /\ APlayer(asshole, AssholeGetWinner(asshole)).finishOrder = 1)
    /\ [][\A i \in APlayerIds(asshole) :
             /\ (i \notin Finished(asshole) /\ i \in Finished(asshole'))
                   => APlayer(asshole', i).finishOrder = Cardinality(Finished(asshole)) + 1
             /\ i \in Finished(asshole)
                   => APlayer(asshole', i).finishOrder = APlayer(asshole, i).finishOrder
         ]_<<asshole>>

\* C32 witness: a second round of four players has ended and its president
\* is not the president of the first round (seat 1).
C32_Witness ==
    /\ asshole.phase = "roundEnd"
    /\ asshole.roundNumber = 2
    /\ Len(asshole.players) = 4
    /\ AssholeGetWinner(asshole) \in {0, 2, 3}
    /\ \E i \in APlayerIds(asshole) : APlayer(asshole, i).rank = "vice-asshole"

----------------------------------------------------------------------------
(* Poker hand evaluator (lib/games/poker: evaluateHand and below).  Card  *)
(* values are getRankValue's, so the Ace has value 1 and the King 13.      *)

HAND_RANKS ==
    <<"high-card", "pair", "two-pair", "three-of-a-kind", "straight", "flush",
      "full-house", "four-of-a-kind", "straight-flush", "royal-flush">>

\* HAND_RANK_VALUES[rank]
HandRankValue(rank) == CHOOSE i \in DOMAIN HAND_RANKS : HAND_RANKS[i] = rank

\* getCombinations(cards, k): the k-element sub-sequences of cards, in the
\* order the recursive combine produces them (lexicographic by index).
RECURSIVE getCombinations(_, _)
getCombinations(cards, k) ==
    IF k = 0 THEN << <<>> >>
    ELSE IF Len(cards) < k THEN <<>>
    ELSE LET withHead == getCombinations(Tail(cards), k - 1)
         IN  [i \in DOMAIN withHead |-> <<Head(cards)>> \o withHead[i]]
               \o getCombinations(Tail(cards), k)

\* [...cards].sort((a, b) => b.value - a.value): descending by value, and
\* (the sort being stable) cards of equal value in their order in cards.
RECURSIVE InsertByValueDesc(_, _)
InsertByValueDesc(c, s) ==
    IF s = <<>> THEN <<c>>
    ELSE IF Head(s).value >= c.value THEN <<Head(s)>> \o InsertByValueDesc(c, Tail(s))
    ELSE <<c>> \o s

RECURSIVE SortByValueDesc(_)
SortByValueDesc(cards) ==
    IF cards = <<>> THEN <<>>
    ELSE InsertByValueDesc(Last(cards), SortByValueDesc(ButLast(cards)))

\* Mutant of checkStraight: the special case of 10-J-Q-K-A is missing.
checkStraightNoBroadway(values) ==
    \/ values = <<5, 4, 3, 2, 1>>
    \/ \A i \in 1..4 : values[i] - values[i + 1] = 1

\* values: the five values in descending order.
checkStraight(values) ==
    \/ values = <<KING, QUEEN, JACK, TEN, ACE>>
    \/ values = <<5, 4, 3, 2, ACE>>
    \/ \A i \in 1..4 : values[i] - values[i + 1] = 1

\* getValueCounts followed by Object.values(...).sort((a, b) => b - a): the
\* numbers of cards of each value present, in descending order.
RECURSIVE CountsDesc(_, _)
CountsDesc(values, present) ==
    IF present = {} THEN <<>>
    ELSE LET n(v) == Count(values, v)
             top == CHOOSE v \in present : \A w \in present : n(w) <= n(v)
         IN  <<n(top)>> \o CountsDesc(values, present \ {top})

getValueCounts(values) == CountsDesc(values, Range(values))

\* The if-chain of evaluateFiveCards on what it computed from the sorted
\* cards.
HandRankOf(isRoyal, isFlush, isStraight, counts) ==
    IF isRoyal /\ isFlush THEN "royal-flush"
    ELSE IF isStraight /\ isFlush THEN "straight-flush"
    ELSE IF counts[1] = 4 THEN "four-of-a-kind"
    ELSE IF counts[1] = 3 /\ counts[2] = 2 THEN "full-house"
    ELSE IF isFlush THEN "flush"
    ELSE IF isStraight THEN "straight"
    ELSE IF counts[1] = 3 THEN "three-of-a-kind"
    ELSE IF counts[1] = 2 /\ counts[2] = 2 THEN "two-pair"
    ELSE IF counts[1] = 2 THEN "pair"
    ELSE "high-card"

\* Royal flush is A-K-Q-J-10: values sorted [13, 12, 11, 10, 1] with A = 1.
IsRoyal(isStraight, values) ==
    isStraight /\ values[1] = KING /\ values[5] = ACE /\ values[2] = QUEEN

IsFlush(suits) == \A i \in DOMAIN suits : suits[i] = suits[1]

HandRankIn(values, suits, isStraight) ==
    HandRankOf(IsRoyal(isStraight, values), IsFlush(suits), isStraight,
               getValueCounts(values))

HandEvaluation(rank, sorted) ==
    [rank |-> rank, rankValue |-> HandRankValue(rank), cards |-> sorted]

EvaluationOfSorted(sorted, values) ==
    HandEvaluation(HandRankIn(values, [i \in DOMAIN sorted |-> sorted[i].suit],
                              checkStraight(values)),
                   sorted)

ValuesOf(sorted) == [i \in DOMAIN sorted |-> sorted[i].value]

SortedEvaluation(sorted) == EvaluationOfSorted(sorted, ValuesOf(sorted))

evaluateFiveCards(cards) == SortedEvaluation(SortByValueDesc(cards))

\* compareHands(a, b): positive when a is the stronger hand.
compareHands(a, b) ==
    IF a.rankValue # b.rankValue THEN a.rankValue - b.rankValue
    ELSE LET differ == {i \in 1..5 : a.cards[i].value # b.cards[i].value}
         IN  IF differ = {} THEN 0
             ELSE LET i == CHOOSE d \in differ : \A e \in differ : d <= e
                  IN  a.cards[i].value - b.cards[i].value

\* One turn of evaluateHand's loop: the new best hand.
Better(evaluation, best) ==
    IF compareHands(evaluation, best) > 0 THEN evaluation ELSE best

\* The loop of evaluateHand from combination i on, best being the best so
\* far.
RECURSIVE BestFrom(_, _, _)
BestFrom(combinations, i, best) ==
    IF i > Len(combinations) THEN best
    ELSE BestFrom(combinations, i + 1, Better(evaluateFiveCards(combinations[i]), best))

BestOf(combinations) == BestFrom(combinations, 2, evaluateFiveCards(combinations[1]))

\* evaluateHand for at least five cards in all (with fewer the source
\* returns null).
evaluateHand(holeCards, communityCards) ==
    BestOf(getCombinations(holeCards \o communityCards, 5))

\* The cards hands are drawn from when the evaluator is checked on its own.
EvalCards ==
    <<Card("spades", ACE), Card("hearts", 5), Card("spades", KING), Card("hearts", ACE),
      Card("hearts", 4), Card("spades", QUEEN), Card("diamonds", ACE), Card("hearts", THREE),
      Card("spades", JACK), Card("hearts", KING), Card("hearts", TWO), Card("spades", TEN),
      Card("clubs", ACE)>>

\* The numbers of community cards on the table from the flop on.
CommunitySizes == {3, 4, 5}

EvaluateInit ==
    /\ \E holeCards \in Range(getCombinations(EvalCards, 2)) :
          \E n \in CommunitySizes :
             \E communityCards \in Range(getCombinations(Without(EvalCards, holeCards), n)) :
                evaluator = [phase |-> "dealt",
                              holeCards |-> holeCards,
                              communityCards |-> communityCards]
    /\ poker = Idle
    /\ solitaireIdle
    /\ heartsIdle
    /\ assholeIdle
    /\ blackjackIdle
    /\ deckIdle

EvaluateHand ==
    /\ evaluator.phase = "dealt"
    /\ evaluator' = [phase |-> "evaluated",
                     holeCards |-> evaluator.holeCards,
                     communityCards |-> evaluator.communityCards,
                     best |-> evaluateHand(evaluator.holeCards,
                                           evaluator.communityCards)]
    /\ evaluatorOnly

\* evaluateHand applied to two hole cards and three to five community cards.
SpecEvaluateHand == EvaluateInit /\ [][EvaluateHand]_vars

\* The categories by the rules of poker, stated on a set of five cards and
\* independently of evaluateFiveCards.
RefValues(hand) == {c.value : c \in hand}

RefIsFlush(hand) == Cardinality({c.suit : c \in hand}) = 1

\* Five consecutive ranks, the Ace below the 2 (the wheel) or above the
\* King (10-J-Q-K-A).
RefIsStraight(hand) ==
    \E low \in 1..10 :
       RefValues(hand) = {IF v = 14 THEN 1 ELSE v : v \in low..(low + 4)}

RefOfValue(hand, v) == Cardinality({c \in hand : c.value = v})

RefPairs(hand) == Cardinality({v \in RefValues(hand) : RefOfValue(hand, v) = 2})

RefHas(hand, n) == \E v \in RefValues(hand) : RefOfValue(hand, v) = n

RefCategory(hand) ==
    IF RefIsFlush(hand) /\ RefValues(hand) = {1, 10, 11, 12, 13} THEN "royal-flush"
    ELSE IF RefIsFlush(hand) /\ RefIsStraight(hand) THEN "straight-flush"
    ELSE IF RefHas(hand, 4) THEN "four-of-a-kind"
    ELSE IF RefHas(hand, 3) /\ RefHas(hand, 2) THEN "full-house"
    ELSE IF RefIsFlush(hand) THEN "flush"
    ELSE IF RefIsStraight(hand) THEN "straight"
    ELSE IF RefHas(hand, 3) THEN "three-of-a-kind"
    ELSE IF RefPairs(hand) = 2 THEN "two-pair"
    ELSE IF RefPairs(hand) = 1 THEN "pair"
    ELSE "high-card"

FiveSubsets(cards) == {hand \in SUBSET Range(cards) : Cardinality(hand) = 5}

\* C7: evaluateHand on 2 hole cards and 3 to 5 community cards returns one
\* of their 5-card subsets, of the highest category any of the subsets
\* reaches by the rules (10-J-Q-K-A of one suit a royal flush, A-2-3-4-5 a
\* straight), and no 5-card subset compares greater (compareHands) than
\* the hand returned.
C7_EvaluateHandBest ==
    evaluator.phase = "evaluated" =>
        LET allCards == evaluator.holeCards \o evaluator.communityCards
            best == evaluator.best
            combinations == getCombinations(allCards, 5)
        IN  /\ Range(best.cards) \in FiveSubsets(allCards)
            /\ best.rank = RefCategory(Range(best.cards))
            /\ \A hand \in FiveSubsets(allCards) :
                  HandRankValue(RefCategory(hand)) <= best.rankValue
            /\ \A i \in DOMAIN combinations :
                  compareHands(evaluateFiveCards(combinations[i]), best) <= 0

\* C7 witness: seven cards whose best hand is the wheel, although they hold
\* an Ace and other subsets are no straight.
C7_Witness ==
    /\ evaluator.phase = "evaluated"
    /\ Len(evaluator.communityCards) = 5
    /\ evaluator.best.rank = "straight"
    /\ RefValues(Range(evaluator.best.cards)) = {1, 2, 3, 4, 5}
    /\ \E hand \in FiveSubsets(evaluator.holeCards \o evaluator.communityCards) :
          RefCategory(hand) = "high-card"

\* The cards the two hands are drawn from when compareHands is checked on
\* its own.
CompareCards ==
    <<Card("spades", ACE), Card("spades", KING), Card("hearts", QUEEN), Card("spades", JACK),
      Card("spades", TEN), Card("diamonds", 9), Card("hearts", 5), Card("spades", 4),
      Card("diamonds", THREE), Card("hearts", TWO)>>

CompareInit ==
    /\ \E a \in Range(getCombinations(CompareCards, 5)) :
          \E b \in Range(getCombinations(CompareCards, 5)) :
             evaluator = [phase |-> "hands", a |-> a, b |-> b]
    /\ poker = Idle
    /\ solitaireIdle
    /\ heartsIdle
    /\ assholeIdle
    /\ blackjackIdle
    /\ deckIdle

\* Both hands are evaluated and the evaluations compared, as determineWinner
\* and evaluateHand do.
CompareHands ==
    /\ evaluator.phase = "hands"
    /\ LET a == evaluateFiveCards(evaluator.a)
           b == evaluateFiveCards(evaluator.b)
       IN  evaluator' = [phase |-> "compared", a |-> a, b |-> b,
                         result |-> compareHands(a, b)]
    /\ evaluatorOnly

\* compareHands applied to two evaluated five-card hands.
SpecCompareHands == CompareInit /\ [][CompareHands]_vars

\* The order of poker, independently of compareHands: the ranks of the
\* cards with the Ace above the King, except in the wheel, where it is
\* below the 2; in descending order.
RefIsWheel(cards) == {cards[i].value : i \in DOMAIN cards} = {1, 2, 3, 4, 5}

RefPokerRank(card, cards) ==
    IF card.value = 1 /\ ~RefIsWheel(cards) THEN 14 ELSE card.value

RECURSIVE RefSortDesc(_)
RefSortDesc(ranks) ==
    IF ranks = {} THEN <<>>
    ELSE LET top == CHOOSE r \in ranks : \A q \in ranks : q <= r
         IN  <<top>> \o RefSortDesc(ranks \ {top})

\* The kickers of a hand of five cards of different ranks.
RefKickers(cards) == RefSortDesc({RefPokerRank(cards[i], cards) : i \in DOMAIN cards})

\* -1, 0 or 1 as the kickers of a are below, equal to or above those of b.
RefCompareKickers(a, b) ==
    LET ka == RefKickers(a)
        kb == RefKickers(b)
        differ == {i \in DOMAIN ka : ka[i] # kb[i]}
    IN  IF differ = {} THEN 0
        ELSE LET i == CHOOSE d \in differ : \A e \in differ : d <= e
             IN  IF ka[i] > kb[i] THEN 1 ELSE -1

Sign(n) == IF n > 0 THEN 1 ELSE IF n < 0 THEN -1 ELSE 0

\* C8 (as claimed): two evaluated hands of the same category are ordered
\* by their kickers in descending order under the ranks of poker, the Ace
\* highest except in the wheel: an ace-high hand beats a king-high hand,
\* 10-J-Q-K-A beats every other straight, the wheel loses to every other
\* straight.
C8_KickersAceHigh ==
    (evaluator.phase = "compared" /\ evaluator.a.rankValue = evaluator.b.rankValue) =>
        Sign(evaluator.result) = RefCompareKickers(evaluator.a.cards, evaluator.b.cards)

----------------------------------------------------------------------------
(* Poker, Texas hold'em (lib/games/poker, PokerState).  winners is <<>>    *)
(* while the source has it undefined.  sidePots is never written by the    *)
(* source and stays empty.                                                 *)

\* createPokerGame's parameters.
StartingChips == 6
SmallBlind == 1
BigBlind == 2

\* The numbers of players and the raiseAmount arguments tried.
PokerPlayerCounts == {2, 3}
RaiseAmounts == {2, 3}

\* The top of the shuffled deck in the deals explored: the hole cards of
\* player 0, 1 and 2, then flop, turn and river (with two players the
\* community cards start at the fifth card).
PokerDecks ==
    { \* the board plays for everyone
      <<Card("clubs", TWO), Card("diamonds", THREE), Card("diamonds", TWO), Card("clubs", THREE),
        Card("hearts", 4), Card("diamonds", 7), Card("spades", ACE), Card("spades", KING),
        Card("spades", QUEEN), Card("spades", JACK), Card("spades", TEN)>>,
      \* ace high against king high against queen high
      <<Card("clubs", ACE), Card("diamonds", 7), Card("clubs", KING), Card("diamonds", 8),
        Card("diamonds", QUEEN), Card("clubs", TWO), Card("spades", 9), Card("hearts", 5),
        Card("diamonds", 4), Card("clubs", THREE), Card("hearts", JACK)>>,
      \* players 0 and 1 hold the same ranks
      <<Card("clubs", KING), Card("diamonds", 7), Card("diamonds", KING), Card("clubs", 7),
        Card("clubs", TWO), Card("diamonds", THREE), Card("spades", KING), Card("hearts", 9),
        Card("diamonds", 8), Card("clubs", 5), Card("hearts", 4)>> }

PPlayerIds(state) == 0..(Len(state.players) - 1)

PPlayer(state, i) == state.players[i + 1]

createPokerGame(playerCount, startingChips, smallBlind, bigBlind, deck) ==
    [deck |-> deck,
     players |-> [i \in 1..playerCount |->
                    [hand |-> <<>>,
                     chips |-> startingChips,
                     currentBet |-> 0,
                     totalBet |-> 0,
                     hasFolded |-> FALSE,
                     hasActed |-> FALSE,
                     isAllIn |-> FALSE,
                     isDealer |-> i = 1]],
     communityCards |-> <<>>,
     pot |-> 0,
     sidePots |-> <<>>,
     currentBet |-> bigBlind,
     dealerIndex |-> 0,
     currentPlayerIndex |-> (IF playerCount > 2 THEN 3 ELSE 0) % playerCount,
     phase |-> "preflop",
     smallBlind |-> smallBlind,
     bigBlind |-> bigBlind,
     minRaise |-> bigBlind,
     roundNumber |-> 1,
     winners |-> <<>>]

\* One blind of postBlinds: the player at index pays amount or what is left.
BlindPosted(players, index, blind) ==
    LET amount == Min(blind, players[index + 1].chips)
    IN  [players EXCEPT ![index + 1] =
            [@ EXCEPT !.chips = @ - amount,
                      !.currentBet = amount,
                      !.totalBet = amount,
                      !.isAllIn = players[index + 1].chips = amount]]

postBlinds(state) ==
    LET n == Len(state.players)
        smallBlindIndex == (state.dealerIndex + 1) % n
        bigBlindIndex == (state.dealerIndex + 2) % n
        sbAmount == Min(state.smallBlind, state.players[smallBlindIndex + 1].chips)
        afterSmall == BlindPosted(state.players, smallBlindIndex, state.smallBlind)
        bbAmount == Min(state.bigBlind, afterSmall[bigBlindIndex + 1].chips)
    IN  [state EXCEPT !.players = BlindPosted(afterSmall, bigBlindIndex, state.bigBlind),
                      !.pot = sbAmount + bbAmount,
                      !.currentBet = bbAmount]

dealHoleCards(state) ==
    LET n == Len(state.players)
    IN  [state EXCEPT
            !.deck = SliceFrom(@, 2 * n + 1),
            !.players = [i \in 1..n |->
                            [state.players[i] EXCEPT
                                !.hand = drawCards(SliceFrom(state.deck, 2 * (i - 1) + 1),
                                                   2).drawnCards]]]

\* A call that never returns: advancePhase's search for the first player to
\* act loops for ever when every player has folded or is all-in.
Hang == [ok |-> FALSE, hang |-> TRUE]

NonFolded(players) == {i \in 0..(Len(players) - 1) : ~players[i + 1].hasFolded}

\* The players that can still bet.
Betting(players) ==
    {i \in 0..(Len(players) - 1) : ~players[i + 1].hasFolded /\ ~players[i + 1].isAllIn}

\* Mutant of determineWinner's winAmount: the pot is not divided.
WinAmountWholePot(pot, winnerCount) == pot

\* Math.floor(state.pot / winners.length)
WinAmount(pot, winnerCount) == pot \div winnerCount

determineWinner(state) ==
    LET activePlayers == NonFolded(state.players)
        \* evaluations: the best hand of every player still in
        hands == [i \in activePlayers |->
                    evaluateHand(PPlayer(state, i).hand, state.communityCards)]
        hand(i) == hands[i]
        \* evaluations[0] after the sort: a hand no other hand beats
        bestPlayer == CHOOSE i \in activePlayers :
                         \A j \in activePlayers : compareHands(hand(j), hand(i)) <= 0
        winners == {i \in activePlayers : compareHands(hand(i), hand(bestPlayer)) = 0}
        winAmount == WinAmount(state.pot, Cardinality(winners))
        \* winners in the order of the sorted evaluations: equal hands keep
        \* the order of the players
        ordered == SelectSeq([i \in DOMAIN state.players |-> i - 1],
                             LAMBDA i : i \in winners)
    IN  [state EXCEPT
            !.phase = "finished",
            !.winners = [j \in DOMAIN ordered |->
                            [playerId |-> ordered[j], amount |-> winAmount,
                             hand |-> hand(ordered[j]).rank]],
            !.players = [i \in DOMAIN state.players |->
                            [state.players[i] EXCEPT
                                !.chips = @ + (IF (i - 1) \in winners THEN winAmount ELSE 0)]]]

\* The first player after from (an index, taken modulo the number of
\* players) who has not folded and is not all-in.  Only used where there is
\* one.
RECURSIVE FirstBetting(_, _)
FirstBetting(players, from) ==
    LET i == from % Len(players)
    IN  IF players[i + 1].hasFolded \/ players[i + 1].isAllIn
        THEN FirstBetting(players, i + 1)
        ELSE i

advancePhase(state) ==
    LET newPlayers == [i \in DOMAIN state.players |->
                          [state.players[i] EXCEPT
                              !.currentBet = 0,
                              !.hasActed = state.players[i].hasFolded
                                             \/ state.players[i].isAllIn]]
        drawn == IF state.phase = "preflop" THEN 3
                 ELSE IF state.phase \in {"flop", "turn"} THEN 1
                 ELSE 0
        draw == drawCards(state.deck, drawn)
        phase == CASE state.phase = "preflop" -> "flop"
                   [] state.phase = "flop" -> "turn"
                   [] state.phase = "turn" -> "river"
                   [] state.phase = "river" -> "showdown"
                   [] OTHER -> state.phase
    IN  IF Betting(newPlayers) = {} THEN Hang
        ELSE
        LET newState == [state EXCEPT
                            !.deck = draw.remainingDeck,
                            !.communityCards = IF state.phase = "preflop"
                                               THEN draw.drawnCards
                                               ELSE @ \o draw.drawnCards,
                            !.phase = phase,
                            !.players = newPlayers,
                            !.currentBet = 0,
                            !.currentPlayerIndex =
                                FirstBetting(newPlayers, state.dealerIndex + 1)]
        IN  IF phase = "showdown" THEN Ok(determineWinner(newState)) ELSE Ok(newState)

\* advanceAction's search for the next player: from index on, the first
\* player who has not folded and is not all-in, stopping at
\* currentPlayerIndex.
RECURSIVE NextToAct(_, _)
NextToAct(state, index) ==
    IF PPlayer(state, index).hasFolded \/ PPlayer(state, index).isAllIn
    THEN LET next == (index + 1) % Len(state.players)
         IN  IF next = state.currentPlayerIndex THEN next ELSE NextToAct(state, next)
    ELSE index

advanceAction(state) ==
    LET activePlayers == Betting(state.players)
        nonFoldedPlayers == NonFolded(state.players)
    IN  IF Cardinality(nonFoldedPlayers) = 1
        THEN LET last == CHOOSE i \in nonFoldedPlayers : TRUE
             IN  Ok([state EXCEPT
                        !.phase = "showdown",
                        !.winners = <<[playerId |-> last, amount |-> state.pot,
                                       hand |-> "Last player standing"]>>])
        ELSE IF \A i \in activePlayers :
                   /\ PPlayer(state, i).hasActed
                   /\ PPlayer(state, i).currentBet = state.currentBet
        THEN advancePhase(state)
        ELSE Ok([state EXCEPT !.currentPlayerIndex =
                    NextToAct(state, (state.currentPlayerIndex + 1) % Len(state.players))])

fold(state, playerId) ==
    IF playerId \notin PPlayerIds(state) THEN Fail
    ELSE advanceAction([state EXCEPT !.players[playerId + 1].hasFolded = TRUE,
                                     !.players[playerId + 1].hasActed = TRUE])

\* Mutant of call: the chips called do not reach the pot.
callKeepsPot(state, playerId) ==
    IF playerId \notin PPlayerIds(state) THEN Fail
    ELSE
    LET player == PPlayer(state, playerId)
        callAmount == Min(state.currentBet - player.currentBet, player.chips)
    IN  advanceAction([state EXCEPT
            !.players[playerId + 1] =
                [@ EXCEPT !.chips = player.chips - callAmount,
                          !.currentBet = player.currentBet + callAmount,
                          !.totalBet = player.totalBet + callAmount,
                          !.hasActed = TRUE,
                          !.isAllIn = player.chips = callAmount]])

call(state, playerId) ==
    IF playerId \notin PPlayerIds(state) THEN Fail
    ELSE
    LET player == PPlayer(state, playerId)
        callAmount == Min(state.currentBet - player.currentBet, player.chips)
    IN  advanceAction([state EXCEPT
            !.players[playerId + 1] =
                [@ EXCEPT !.chips = player.chips - callAmount,
                          !.currentBet = player.currentBet + callAmount,
                          !.totalBet = player.totalBet + callAmount,
                          !.hasActed = TRUE,
                          !.isAllIn = player.chips = callAmount],
            !.pot = @ + callAmount])

raise(state, playerId, raiseAmount) ==
    IF playerId \notin PPlayerIds(state) THEN Fail
    ELSE
    LET player == PPlayer(state, playerId)
        totalBetNeeded == state.currentBet + raiseAmount
        amountToAdd == totalBetNeeded - player.currentBet
    IN  IF amountToAdd > player.chips THEN Fail
        ELSE IF raiseAmount < state.minRaise /\ amountToAdd # player.chips THEN Fail
        ELSE advanceAction([state EXCEPT
                !.players = [i \in DOMAIN state.players |->
                    IF i = playerId + 1
                    THEN [state.players[i] EXCEPT
                             !.chips = @ - amountToAdd,
                             !.currentBet = totalBetNeeded,
                             !.totalBet = @ + amountToAdd,
                             !.hasActed = TRUE,
                             !.isAllIn = player.chips = amountToAdd]
                    ELSE [state.players[i] EXCEPT
                             !.hasActed = state.players[i].hasFolded
                                            \/ state.players[i].isAllIn]],
                !.pot = @ + amountToAdd,
                !.currentBet = totalBetNeeded,
                !.minRaise = raiseAmount])

check(state, playerId) ==
    IF playerId \notin PPlayerIds(state) THEN Fail
    ELSE IF PPlayer(state, playerId).currentBet # state.currentBet THEN Fail
    ELSE advanceAction([state EXCEPT !.players[playerId + 1].hasActed = TRUE])

\* Mutant of allIn: the other players' has-acted flags are left alone.
allInNoReopen(state, playerId) ==
    IF playerId \notin PPlayerIds(state) THEN Fail
    ELSE
    LET player == PPlayer(state, playerId)
        allInAmount == player.chips
        newBet == player.currentBet + allInAmount
        isRaise == newBet > state.currentBet
    IN  advanceAction([state EXCEPT
            !.players[playerId + 1] =
                [@ EXCEPT !.chips = 0,
                          !.currentBet = newBet,
                          !.totalBet = @ + allInAmount,
                          !.hasActed = TRUE,
                          !.isAllIn = TRUE],
            !.pot = @ + allInAmount,
            !.currentBet = IF isRaise THEN newBet ELSE @,
            !.minRaise = IF isRaise THEN newBet - state.currentBet ELSE @])

allIn(state, playerId) ==
    IF playerId \notin PPlayerIds(state) THEN Fail
    ELSE
    LET player == PPlayer(state, playerId)
        allInAmount == player.chips
        newBet == player.currentBet + allInAmount
        isRaise == newBet > state.currentBet
    IN  advanceAction([state EXCEPT
            !.players = [i \in DOMAIN state.players |->
                IF i = playerId + 1
                THEN [state.players[i] EXCEPT
                         !.chips = 0,
                         !.currentBet = newBet,
                         !.totalBet = @ + allInAmount,
                         !.hasActed = TRUE,
                         !.isAllIn = TRUE]
                ELSE IF isRaise /\ ~state.players[i].hasFolded /\ ~state.players[i].isAllIn
                THEN [state.players[i] EXCEPT !.hasActed = FALSE]
                ELSE state.players[i]],
            !.pot = @ + allInAmount,
            !.currentBet = IF isRaise THEN newBet ELSE @,
            !.minRaise = IF isRaise THEN newBet - state.currentBet ELSE @])

\* The game as PokerGame sets it up: created, blinds posted, hole cards
\* dealt.
PokerInit ==
    /\ \E playerCount \in PokerPlayerCounts, deck \in PokerDecks :
          poker = dealHoleCards(postBlinds(
                      createPokerGame(playerCount, StartingChips, SmallBlind, BigBlind, deck)))
    /\ evaluator = Idle
    /\ solitaireIdle
    /\ heartsIdle
    /\ assholeIdle
    /\ blackjackIdle
    /\ deckIdle

\* The player to act is the one at currentPlayerIndex while the hand is
\* being bet, as PokerGame drives it.
ToAct(state) ==
    /\ state.phase \in {"preflop", "flop", "turn", "river"}
    /\ ~PPlayer(state, state.currentPlayerIndex).hasFolded
    /\ ~PPlayer(state, state.currentPlayerIndex).isAllIn

PokerStep(r) == r.ok /\ poker' = r.state /\ pokerOnly

Fold == ToAct(poker) /\ PokerStep(fold(poker, poker.currentPlayerIndex))

Call == ToAct(poker) /\ PokerStep(call(poker, poker.currentPlayerIndex))

Raise ==
    /\ ToAct(poker)
    /\ \E raiseAmount \in RaiseAmounts :
          PokerStep(raise(poker, poker.currentPlayerIndex, raiseAmount))

Check == ToAct(poker) /\ PokerStep(check(poker, poker.currentPlayerIndex))

AllIn == ToAct(poker) /\ PokerStep(allIn(poker, poker.currentPlayerIndex))

PokerNext ==
    \/ Fold
    \/ Call
    \/ Raise
    \/ Check
    \/ AllIn

\* One hand of poker bet in turn.
SpecPoker == PokerInit /\ [][PokerNext]_vars

\* C6 (as claimed): when a fold leaves exactly one player who has not
\* folded, the hand ends at once, no further community card is dealt, and
\* that player's chips grow by the entire pot.
C6_FoldWinsPot ==
    [][(/\ Cardinality(NonFolded(poker.players)) = 2
        /\ Cardinality(NonFolded(poker'.players)) = 1)
       => LET last == CHOOSE i \in NonFolded(poker'.players) : TRUE
          IN  /\ poker'.communityCards = poker.communityCards
              /\ poker'.phase \notin {"preflop", "flop", "turn", "river"}
              /\ PPlayer(poker', last).chips = PPlayer(poker, last).chips + poker.pot
      ]_<<poker>>

\* The players of a state who have not folded and whose best hand no other
\* such player's best hand beats.
ShowdownBest(state) ==
    LET in == NonFolded(state.players)
        best(i) == evaluateHand(PPlayer(state, i).hand, state.communityCards)
    IN  {i \in in : \A j \in in : compareHands(best(j), best(i)) <= 0}

\* What the last bet of a hand took from player i's chips.
LastBet(i) == PPlayer(poker', i).totalBet - PPlayer(poker, i).totalBet

\* C9: at the showdown the winners are exactly the players who have not
\* folded and whose best hand ties for the maximum; each winner's chips
\* grow by floor(pot / number of winners), the chips of the others do not
\* change, and the phase becomes 'finished'.  (The order of the hands is
\* compareHands's.)
C9_ShowdownSplitsPot ==
    [][(poker.phase = "river" /\ poker'.phase # "river"
          /\ Cardinality(NonFolded(poker'.players)) > 1)
       => LET winners == ShowdownBest(poker')
              share == poker'.pot \div Cardinality(winners)
          IN  /\ poker'.phase = "finished"
              /\ {poker'.winners[j].playerId : j \in DOMAIN poker'.winners} = winners
              /\ \A j \in DOMAIN poker'.winners : poker'.winners[j].amount = share
              /\ \A i \in PPlayerIds(poker) :
                    PPlayer(poker', i).chips =
                        PPlayer(poker, i).chips - LastBet(i)
                          + (IF i \in winners THEN share ELSE 0)
      ]_<<poker>>

\* C9 witness: a hand finished at the showdown with three players in, two
\* of them winners, and a pot that two do not divide evenly.
C9_Witness ==
    /\ poker.phase = "finished"
    /\ Cardinality(NonFolded(poker.players)) = 3
    /\ Len(poker.winners) = 2
    /\ poker.pot % 2 = 1
    /\ \A j \in DOMAIN poker.winners : poker.winners[j].amount = poker.pot \div 2

\* What the claim requires of the result of an action the player to act
\* takes: the call returns, and when it leaves every player who has not
\* folded all-in, with more than one such player, the five community cards
\* are out and the hand is 'finished'.
Completes(r) ==
    /\ r # Hang
    /\ (r.ok /\ Betting(r.state.players) = {} /\ Cardinality(NonFolded(r.state.players)) > 1)
          => (r.state.phase = "finished" /\ Len(r.state.communityCards) = 5)

\* C19 (as claimed): every fold, call, raise, check and allIn of the player
\* to act returns (a state or a refusal), also when the action leaves every
\* player who has not folded all-in; the hand then goes to the showdown and
\* is 'finished'.
C19_ActionsComplete ==
    ToAct(poker) =>
        /\ Completes(fold(poker, poker.currentPlayerIndex))
        /\ Completes(call(poker, poker.currentPlayerIndex))
        /\ \A raiseAmount \in RaiseAmounts :
              Completes(raise(poker, poker.currentPlayerIndex, raiseAmount))
        /\ Completes(check(poker, poker.currentPlayerIndex))
        /\ Completes(allIn(poker, poker.currentPlayerIndex))

\* The streets on which bets are made.
Streets == {"preflop", "flop", "turn", "river"}

\* A step that closes the betting round and moves the hand on: to the next
\* street, or from the river through the showdown to 'finished'.
StreetAdvanced ==
    /\ poker.phase \in Streets
    /\ poker'.phase \in {"flop", "turn", "river", "finished"}
    /\ poker'.phase # poker.phase

\* The round bet of player i once the step's chips are in.
RoundBetAfter(i) == PPlayer(poker, i).currentBet + LastBet(i)

\* The players other than the player to act who can still bet.
OthersBetting ==
    {i \in Betting(poker.players) : i # poker.currentPlayerIndex}

\* What C34 says of one step taken by the player to act: bet is the bet to
\* match once the step's chips are in.
BettingRoundStep(bet) ==
    LET actor == poker.currentPlayerIndex
    IN  /\ StreetAdvanced =>
              \* nobody is left who has not acted or has not matched the bet
              /\ \A i \in OthersBetting :
                    /\ PPlayer(poker, i).hasActed
                    /\ PPlayer(poker, i).currentBet = bet
              /\ actor \in Betting(poker'.players) => RoundBetAfter(actor) = bet
              \* the next street starts with nobody having acted
              /\ poker'.phase \in Streets =>
                    \A i \in Betting(poker'.players) : ~PPlayer(poker', i).hasActed
        /\ poker'.phase = poker.phase =>
              /\ PPlayer(poker', actor).hasActed
              /\ poker'.currentBet = bet
              /\ \A i \in OthersBetting :
                    PPlayer(poker', i).hasActed =
                        IF bet > poker.currentBet THEN FALSE ELSE PPlayer(poker, i).hasActed

\* The raiseAmount arguments of RaiseAmounts and a raise by nothing.
AnyRaiseAmounts == RaiseAmounts \cup {0}

AnyRaise ==
    /\ ToAct(poker)
    /\ \E raiseAmount \in AnyRaiseAmounts :
          PokerStep(raise(poker, poker.currentPlayerIndex, raiseAmount))

PokerAnyRaiseNext ==
    \/ Fold
    \/ Call
    \/ AnyRaise
    \/ Check
    \/ AllIn

\* One hand of poker bet in turn, raise called with any amount from 0.
SpecPokerAnyRaise == PokerInit /\ [][PokerAnyRaiseNext]_vars

\* C34 (as claimed): the phase advances to the next street only when every
\* player who is neither folded nor all-in has acted since the last raise
\* and has a round bet equal to currentBet; an accepted raise increases
\* currentBet and clears the has-acted flag of every other player who is
\* neither folded nor all-in, so that each of them must act again before
\* the round can end.  (has-acted is false for everybody when a street
\* starts, is set by a player's own action and is cleared only by a raise.)
C34_BettingRound ==
    /\ \A i \in PPlayerIds(poker) : ~PPlayer(poker, i).hasActed
    /\ [][/\ BettingRoundStep(IF RoundBetAfter(poker.currentPlayerIndex) > poker.currentBet
                              THEN RoundBetAfter(poker.currentPlayerIndex)
                              ELSE poker.currentBet)
          /\ \A raiseAmount \in AnyRaiseAmounts :
                LET r == raise(poker, poker.currentPlayerIndex, raiseAmount)
                IN  (ToAct(poker) /\ r.ok /\ poker' = r.state)
                    => /\ RoundBetAfter(poker.currentPlayerIndex) > poker.currentBet
                       /\ poker'.phase = poker.phase =>
                             /\ poker'.currentBet > poker.currentBet
                             /\ \A i \in OthersBetting : ~PPlayer(poker', i).hasActed
         ]_<<poker>>

\* C34 witness: a player who had acted on this street is to act again
\* because of a raise made after that.
C34_Witness ==
    /\ ToAct(poker)
    /\ poker.phase = "flop"
    /\ ~PPlayer(poker, poker.currentPlayerIndex).hasActed
    /\ PPlayer(poker, poker.currentPlayerIndex).currentBet > 0
    /\ PPlayer(poker, poker.currentPlayerIndex).currentBet < poker.currentBet

\* What C35 says of a step in which the player to act went all-in.
AllInStep ==
    LET actor == poker.currentPlayerIndex
        before == PPlayer(poker, actor)
        after == PPlayer(poker', actor)
        newBet == before.currentBet + before.chips
    IN  /\ poker'.pot = poker.pot + before.chips
        /\ after.totalBet = before.totalBet + before.chips
        /\ after.isAllIn
        /\ poker'.phase # "finished" => after.chips = 0
        /\ poker'.phase = poker.phase =>
              /\ after.currentBet = newBet
              /\ IF newBet > poker.currentBet
                 THEN /\ poker'.currentBet = newBet
                      /\ \A i \in OthersBetting : ~PPlayer(poker', i).hasActed
                 ELSE /\ poker'.currentBet = poker.currentBet
                      /\ poker'.minRaise = poker.minRaise
                      /\ \A i \in OthersBetting :
                            PPlayer(poker', i).hasActed = PPlayer(poker, i).hasActed
              /\ \A i \in PPlayerIds(poker) \ (OthersBetting \cup {actor}) :
                    PPlayer(poker', i) = PPlayer(poker, i)

----------------------------------------------------------------------------
(* Poker over several hands: startNewRound drops the players without      *)
(* chips, moves the dealer and posts the blinds again, so that a blind can *)
(* meet a player who holds less than the blind.                            *)

\* createPokerGame's parameters in the games of several hands: the blinds
\* are large against the chips, so that short stacks come up at once.
ShortStartingChips == 6
ShortSmallBlind == 4
ShortBigBlind == 5

\* The hands played.
MaxHands == 2

\* The deck shuffled by startNewRound (its top cards).
NewRoundDeck ==
    <<Card("clubs", ACE), Card("diamonds", 7), Card("clubs", KING), Card("diamonds", 8),
      Card("diamonds", QUEEN), Card("clubs", TWO), Card("spades", 9), Card("hearts", 5),
      Card("diamonds", 4), Card("clubs", THREE), Card("hearts", JACK)>>

\* startNewRound(state) of poker; deck: the shuffled deck.
PokerStartNewRound(state, deck) ==
    LET newDealerIndex == (state.dealerIndex + 1) % Len(state.players)
        kept == SelectSeq(state.players, LAMBDA p : p.chips > 0)
        newPlayers == [i \in DOMAIN kept |->
                          [kept[i] EXCEPT !.hand = <<>>,
                                          !.currentBet = 0,
                                          !.totalBet = 0,
                                          !.hasFolded = FALSE,
                                          !.hasActed = FALSE,
                                          !.isAllIn = FALSE,
                                          !.isDealer = (i - 1) = newDealerIndex]]
    IN  IF Len(newPlayers) < 2 THEN [state EXCEPT !.phase = "finished"]
        ELSE dealHoleCards(postBlinds(
                 [state EXCEPT !.deck = deck,
                               !.players = newPlayers,
                               !.communityCards = <<>>,
                               !.pot = 0,
                               !.sidePots = <<>>,
                               !.currentBet = 0,
                               !.dealerIndex = newDealerIndex,
                               !.currentPlayerIndex = (newDealerIndex + 3) % Len(newPlayers),
                               !.phase = "preflop",
                               !.minRaise = state.bigBlind,
                               !.roundNumber = @ + 1,
                               !.winners = <<>>]))

PokerHandsInit ==
    /\ \E playerCount \in PokerPlayerCounts :
          poker = dealHoleCards(postBlinds(
                      createPokerGame(playerCount, ShortStartingChips, ShortSmallBlind,
                                      ShortBigBlind, NewRoundDeck)))
    /\ evaluator = Idle
    /\ solitaireIdle
    /\ heartsIdle
    /\ assholeIdle
    /\ blackjackIdle
    /\ deckIdle

\* The next hand is started when a hand is over.
PokerNewRound ==
    /\ poker.phase \in {"showdown", "finished"}
    /\ poker.roundNumber < MaxHands
    /\ poker' = PokerStartNewRound(poker, NewRoundDeck)
    /\ pokerOnly

PokerHandsNext ==
    \/ Fold
    \/ Call
    \/ Raise
    \/ Check
    \/ AllIn
    \/ PokerNewRound

\* Hands of poker bet in turn, one after the other.
SpecPokerHands == PokerHandsInit /\ [][PokerHandsNext]_vars

\* The chips of the players from seat n on, and what they have bet in the
\* hand.
RECURSIVE ChipsFrom(_, _)
ChipsFrom(players, n) ==
    IF n > Len(players) THEN 0 ELSE players[n].chips + ChipsFrom(players, n + 1)

RECURSIVE BetsFrom(_, _)
BetsFrom(players, n) ==
    IF n > Len(players) THEN 0 ELSE players[n].totalBet + BetsFrom(players, n + 1)

\* The chips on the table: with the players and in the pot.
Money(state) == ChipsFrom(state.players, 1) + state.pot

\* In every state of a hand the pot is what the players have bet and no
\* player's chips are negative.
PotIsBets ==
    /\ poker.pot = BetsFrom(poker.players, 1)
    /\ \A i \in PPlayerIds(poker) : PPlayer(poker, i).chips >= 0

\* C36 (as claimed): from postBlinds through every accepted fold, check,
\* call, raise and allIn of a hand, the sum of all players' chips plus the
\* pot stays constant, the pot equals the sum of the players' totalBet, and
\* no player's chips become negative.
C36_MoneyAsClaimed ==
    /\ []PotIsBets
    /\ [][poker.phase \in Streets => Money(poker') = Money(poker)]_<<poker>>

\* C36 (amended): the pot equals the sum of the players' totalBet and no
\* player's chips are negative in every state of a hand; the sum of the
\* chips plus the pot stays constant through every accepted action that
\* does not end the hand at a showdown; the action that does pays
\* floor(pot / winners) to each winner and leaves the pot as it is.
C36_Money ==
    /\ []PotIsBets
    /\ [][poker.phase \in Streets =>
             Money(poker') = Money(poker)
                + (IF poker'.phase = "finished"
                   THEN Len(poker'.winners) * (poker'.pot \div Len(poker'.winners))
                   ELSE 0)]_<<poker>>

\* C36 witness: a second hand, started with a blind clipped to a short
\* player's chips, was bet to the showdown and paid out.
C36_Witness ==
    /\ poker.phase = "finished"
    /\ poker.roundNumber = 2
    /\ Len(poker.winners) > 0
    /\ poker.pot > 0
    /\ \E i \in PPlayerIds(poker) : PPlayer(poker, i).totalBet < poker.bigBlind

\* C37 (as claimed): call never pays chips back: in every state reached
\* after postBlinds, with the blinds clipped to the chips of a short
\* player, no player's round bet exceeds currentBet while bets are made, and
\* an accepted call leaves the pot no lower and the caller's chips no
\* higher than before (the caller's winnings at a showdown aside).
C37_CallNeverPaysBack ==
    /\ [](poker.phase \in Streets =>
             \A i \in PPlayerIds(poker) : PPlayer(poker, i).currentBet <= poker.currentBet)
    /\ [][LET actor == poker.currentPlayerIndex
              r == call(poker, actor)
          IN  (ToAct(poker) /\ r.ok /\ poker' = r.state)
              => /\ poker'.pot >= poker.pot
                 /\ LastBet(actor) >= 0
                 /\ poker'.phase # "finished" =>
                       PPlayer(poker', actor).chips <= PPlayer(poker, actor).chips
         ]_<<poker>>

----------------------------------------------------------------------------
(* Blackjack: lib/games/blackjack.ts.  A blackjack card also carries      *)
(* faceUp.  card.rank is read through value: 'A' is ACE, 'J', 'Q', 'K' are *)
(* JACK, QUEEN, KING, and parseInt(rank) is the value of 2..10.            *)

BJ_ACE_HIGH == 11
BJ_FACE == 10
BJ_LIMIT == 21
BJ_ACE_STEP == 10

BJCard(c, up) == [suit |-> c.suit, value |-> c.value, faceUp |-> up]

\* { ...drawnCards[0], faceUp: true } when the deck has no card left:
\* drawnCards[0] is undefined and the object has no rank (value 0 here).
NoRankCard == [suit |-> "none", value |-> 0, faceUp |-> TRUE]

\* The card a draw of one adds to a hand, face up.
DrawnFaceUp(deck) ==
    IF Len(deck) = 0 THEN NoRankCard ELSE BJCard(drawCards(deck, 1).drawnCards[1], TRUE)

\* parseInt(undefined, 10): the total of a hand with a card without rank.
\* No comparison with it is true.
NaN == -1

NumLess(a, b) == a # NaN /\ b # NaN /\ a < b

\* What the for loop of getHandValue adds for one card.
CardPoints(card) ==
    IF card.value = ACE THEN BJ_ACE_HIGH
    ELSE IF card.value \in {KING, QUEEN, JACK} THEN BJ_FACE
    ELSE card.value

\* The for loop: [value, aces] after the cards from position i on.
RECURSIVE HandTotals(_, _, _, _)
HandTotals(hand, i, value, aces) ==
    IF i > Len(hand) THEN [value |-> value, aces |-> aces]
    ELSE HandTotals(hand, i + 1, value + CardPoints(hand[i]),
                    IF hand[i].value = ACE THEN aces + 1 ELSE aces)

\* Mutant of AdjustForAces: every Ace is counted as 1 once the total
\* exceeds 21.
AdjustAllAces(value, aces) ==
    IF value > BJ_LIMIT /\ aces > 0
    THEN [value |-> value - BJ_ACE_STEP * aces, aces |-> 0]
    ELSE [value |-> value, aces |-> aces]

\* The while loop: 10 off per Ace while the total exceeds 21.
RECURSIVE AdjustForAces(_, _)
AdjustForAces(value, aces) ==
    IF value > BJ_LIMIT /\ aces > 0
    THEN AdjustForAces(value - BJ_ACE_STEP, aces - 1)
    ELSE [value |-> value, aces |-> aces]

SoftValue(t) == [value |-> t.value, isSoft |-> t.aces > 0 /\ t.value <= BJ_LIMIT]

AdjustedTotals(t) == SoftValue(AdjustForAces(t.value, t.aces))

getHandValue(hand) ==
    IF \E j \in DOMAIN hand : hand[j] = NoRankCard
    THEN [value |-> NaN, isSoft |-> FALSE]
    ELSE AdjustedTotals(HandTotals(hand, 1, 0, 0))

isBlackjack(hand) == Len(hand) = 2 /\ getHandValue(hand).value = BJ_LIMIT

isBusted(hand) == NumLess(BJ_LIMIT, getHandValue(hand).value)

\* The cards the hands given to getHandValue are made of, and the largest
\* hand.
HandValueCards ==
    <<Card("spades", ACE), Card("hearts", ACE), Card("diamonds", ACE), Card("clubs", ACE),
      Card("spades", KING), Card("hearts", QUEEN), Card("clubs", 9), Card("diamonds", 5),
      Card("clubs", TWO)>>

MaxHandSize == 4

HandValueInit ==
    /\ \E n \in 1..MaxHandSize :
          \E pick \in [1..n -> DOMAIN HandValueCards] :
             /\ \A a \in 1..n, b \in 1..n : a # b => pick[a] # pick[b]
             /\ handValue = [phase |-> "called",
                             hand |-> [j \in 1..n |-> BJCard(HandValueCards[pick[j]], TRUE)]]
    /\ blackjack = Idle
    /\ solitaireIdle
    /\ heartsIdle
    /\ assholeIdle
    /\ pokerIdle
    /\ deckIdle

GetHandValue ==
    /\ handValue.phase = "called"
    /\ handValue' = [phase |-> "returned",
                     hand |-> handValue.hand,
                     result |-> getHandValue(handValue.hand),
                     isBlackjack |-> isBlackjack(handValue.hand),
                     isBusted |-> isBusted(handValue.hand)]
    /\ handValueOnly

SpecHandValue == HandValueInit /\ [][GetHandValue]_vars

\* Reference for C14: the totals of a hand with k of its Aces counted as
\* 11 and the others as 1.
RefAceCount(hand) == Cardinality({j \in DOMAIN hand : hand[j].value = ACE})

RefHardTotal(hand) ==
    LET pts(c) == IF c.value >= TEN THEN 10 ELSE c.value
        sum[n \in 0..Len(hand)] == IF n = 0 THEN 0 ELSE sum[n - 1] + pts(hand[n])
    IN  sum[Len(hand)]

RefTotals(hand) == {RefHardTotal(hand) + 10 * k : k \in 0..RefAceCount(hand)}

RefBestTotal(hand) ==
    LET fitting == {t \in RefTotals(hand) : t <= 21}
    IN  IF fitting = {} THEN RefHardTotal(hand)
        ELSE CHOOSE t \in fitting : \A u \in fitting : u <= t

HandRanks(hand) == [j \in DOMAIN hand |-> hand[j].value]

\* getHandValue returns the largest total not above 21, or the total with
\* every Ace as 1, and isSoft says whether an Ace counts 11 in it.
HandValueAsRuled ==
    LET hand == handValue.hand
        r == handValue.result
    IN  /\ r.value = RefBestTotal(hand)
        /\ r.isSoft <=> r.value # RefHardTotal(hand)
        /\ handValue.isBusted <=> r.value > 21
        /\ HandRanks(hand) = <<ACE, ACE, 9>> => r.value = 21 /\ r.isSoft
        /\ HandRanks(hand) = <<KING, QUEEN, 5>> => r.value = 25 /\ handValue.isBusted

\* C14 (as claimed): getHandValue returns the largest total not above 21
\* obtainable by counting each Ace as 1 or 11 and every other card at its
\* rank (J, Q, K = 10), or, when no such total exists, the total with every
\* Ace counted as 1; isSoft is true exactly when an Ace is counted as 11 in
\* the returned total.  [A, A, 9] is soft 21, [K, Q] is a blackjack (two
\* cards totalling 21) and [K, Q, 5] is 25 and busted.
C14_HandValueAsClaimed ==
    handValue.phase = "returned" =>
        /\ HandValueAsRuled
        /\ handValue.isBlackjack <=>
              (Len(handValue.hand) = 2 /\ handValue.result.value = 21)
        /\ HandRanks(handValue.hand) = <<KING, QUEEN>> => handValue.isBlackjack

\* C14 (amended): as claimed, except that [K, Q] totals 20 and is not a
\* blackjack: the two-card hands totalling 21 are those of an Ace and a
\* card worth 10.
C14_HandValue ==
    handValue.phase = "returned" =>
        /\ HandValueAsRuled
        /\ handValue.isBlackjack <=>
              (Len(handValue.hand) = 2 /\ handValue.result.value = 21)
        /\ handValue.isBlackjack <=>
              /\ Len(handValue.hand) = 2
              /\ \E a \in 1..2, b \in 1..2 :
                    /\ handValue.hand[a].value = ACE
                    /\ handValue.hand[b].value >= TEN
        /\ HandRanks(handValue.hand) = <<KING, QUEEN>> =>
              /\ handValue.result.value = 20
              /\ ~handValue.result.isSoft
              /\ ~handValue.isBlackjack

\* C14 witness: getHandValue returned soft 21 for [A, A, 9].
C14_Witness ==
    /\ handValue.phase = "returned"
    /\ HandRanks(handValue.hand) = <<ACE, ACE, 9>>
    /\ handValue.result = [value |-> 21, isSoft |-> TRUE]
    /\ ~handValue.isBlackjack

----------------------------------------------------------------------------
(* The blackjack round.  The deck is the sequence deck.cards.  The         *)
(* dealer's chips (Infinity, never read or written) are 0.                 *)

DEALER_STANDS == 17
LOW_DECK == 15

BJStartingChips == 10
BJMaxRounds == 2

\* The numbers of players and the bets placed (even, so that 1.5 times
\* the bet is a whole number of chips).
BJPlayerCounts == {1, 2}
BetAmounts == {2, 4}

\* The shuffles drawn by startNewRound.
BJDeals == {1, 2}

BJPlayerIds(state) == 0..(Len(state.players) - 1)

BJNewPlayer(chips, isDealer) ==
    [hand |-> <<>>, bet |-> 0, chips |-> chips, hasStood |-> FALSE,
     hasBusted |-> FALSE, hasBlackjack |-> FALSE, isDealer |-> isDealer]

\* deck: the shuffled deck.
createBlackjackGame(playerCount, startingChips, deck) ==
    [deck |-> deck,
     players |-> [i \in 1..playerCount |-> BJNewPlayer(startingChips, FALSE)],
     dealer |-> BJNewPlayer(0, TRUE),
     currentPlayerIndex |-> 0,
     phase |-> "betting",
     roundNumber |-> 1]

placeBet(state, playerId, amount) ==
    IF playerId \notin BJPlayerIds(state) THEN Fail
    ELSE IF amount > state.players[playerId + 1].chips \/ amount < 1 THEN Fail
    ELSE Ok([state EXCEPT !.players[playerId + 1].bet = amount])

MarkBlackjack(player, stands) ==
    IF isBlackjack(player.hand)
    THEN [player EXCEPT !.hasBlackjack = TRUE, !.hasStood = IF stands THEN TRUE ELSE @]
    ELSE player

\* The two dealing rounds give player i the cards i and n + 1 + i of the
\* deck (from 0) and the dealer the cards n and 2n + 1, the dealer's second
\* face-down.
dealInitialCards(state) ==
    LET n == Len(state.players)
        deck == state.deck
        dealt == [i \in 1..n |->
                    [state.players[i] EXCEPT
                        !.hand = @ \o <<BJCard(deck[i], TRUE), BJCard(deck[n + 1 + i], TRUE)>>]]
        dealtDealer == [state.dealer EXCEPT
                           !.hand = @ \o <<BJCard(deck[n + 1], TRUE),
                                           BJCard(deck[2 * n + 2], FALSE)>>]
    IN  [state EXCEPT
            !.deck = drawCards(deck, 2 * n + 2).remainingDeck,
            !.players = [i \in 1..n |-> MarkBlackjack(dealt[i], TRUE)],
            !.dealer = MarkBlackjack(dealtDealer, FALSE),
            !.phase = "playing",
            !.currentPlayerIndex = 0]

\* The first index after currentIndex of a player who has neither stood
\* nor busted, -1 when there is none.
findNextActivePlayer(players, currentIndex) ==
    LET active == {i \in (currentIndex + 1)..(Len(players) - 1) :
                      ~players[i + 1].hasStood /\ ~players[i + 1].hasBusted}
    IN  IF active = {} THEN -1
        ELSE CHOOSE i \in active : \A j \in active : i <= j

hit(state, playerId) ==
    IF playerId \notin BJPlayerIds(state) THEN Fail
    ELSE IF state.players[playerId + 1].hasStood \/ state.players[playerId + 1].hasBusted
    THEN Fail
    ELSE
    LET drawn == drawCards(state.deck, 1)
        newHand == Append(state.players[playerId + 1].hand, DrawnFaceUp(state.deck))
        busted == isBusted(newHand)
        newPlayers == [state.players EXCEPT ![playerId + 1] =
                          [@ EXCEPT !.hand = newHand,
                                    !.hasBusted = busted,
                                    !.hasStood = IF busted THEN TRUE ELSE @]]
        next == findNextActivePlayer(newPlayers, state.currentPlayerIndex)
    IN  Ok([state EXCEPT
               !.deck = drawn.remainingDeck,
               !.players = newPlayers,
               !.currentPlayerIndex = IF busted /\ next # -1 THEN next ELSE @,
               !.phase = IF busted /\ next = -1 THEN "dealer" ELSE @])

stand(state, playerId) ==
    IF playerId \notin BJPlayerIds(state) THEN Fail
    ELSE
    LET newPlayers == [state.players EXCEPT ![playerId + 1].hasStood = TRUE]
        nextPlayerIndex == findNextActivePlayer(newPlayers, state.currentPlayerIndex)
    IN  Ok([state EXCEPT
               !.players = newPlayers,
               !.currentPlayerIndex = IF nextPlayerIndex = -1 THEN @ ELSE nextPlayerIndex,
               !.phase = IF nextPlayerIndex = -1 THEN "dealer" ELSE @])

\* The while loop of dealerPlay: [hand, deck] once the value is 17 or more.
RECURSIVE DealerDraws(_, _)
DealerDraws(hand, deck) ==
    IF NumLess(getHandValue(hand).value, DEALER_STANDS)
    THEN DealerDraws(Append(hand, DrawnFaceUp(deck)), drawCards(deck, 1).remainingDeck)
    ELSE [hand |-> hand, deck |-> deck]

dealerPlay(state) ==
    LET flipped == [j \in DOMAIN state.dealer.hand |->
                       [state.dealer.hand[j] EXCEPT !.faceUp = TRUE]]
        drawn == DealerDraws(flipped, state.deck)
    IN  [state EXCEPT
            !.deck = drawn.deck,
            !.dealer = [@ EXCEPT !.hand = drawn.hand,
                                 !.hasBusted = isBusted(drawn.hand),
                                 !.hasStood = TRUE],
            !.phase = "settlement"]

\* player.bet * 1.5, a whole number for the even bets placed.
BlackjackPays(bet) == (bet * 3) \div 2

\* Mutant of ChipChange: a busted player is paid when the dealer busted
\* too.
ChipChangeDealerBustFirst(player, dealer) ==
    LET playerValue == getHandValue(player.hand).value
        dealerValue == getHandValue(dealer.hand).value
    IN  IF dealer.hasBusted /\ ~player.hasBlackjack /\ ~dealer.hasBlackjack THEN player.bet
        ELSE IF player.hasBusted THEN -player.bet
        ELSE IF player.hasBlackjack /\ ~dealer.hasBlackjack THEN BlackjackPays(player.bet)
        ELSE IF dealer.hasBlackjack /\ ~player.hasBlackjack THEN -player.bet
        ELSE IF playerValue > dealerValue THEN player.bet
        ELSE IF playerValue < dealerValue THEN -player.bet
        ELSE 0

\* chipChange of settleRound for one player.
ChipChange(player, dealer) ==
    LET playerValue == getHandValue(player.hand).value
        dealerValue == getHandValue(dealer.hand).value
    IN  IF player.hasBusted THEN -player.bet
        ELSE IF player.hasBlackjack /\ ~dealer.hasBlackjack THEN BlackjackPays(player.bet)
        ELSE IF dealer.hasBlackjack /\ ~player.hasBlackjack THEN -player.bet
        ELSE IF dealer.hasBusted THEN player.bet
        ELSE IF NumLess(dealerValue, playerValue) THEN player.bet
        ELSE IF NumLess(playerValue, dealerValue) THEN -player.bet
        ELSE 0

settleRound(state) ==
    [state EXCEPT
        !.players = [i \in DOMAIN state.players |->
                        [state.players[i] EXCEPT
                            !.chips = @ + ChipChange(state.players[i], state.dealer)]],
        !.phase = "finished"]

BJClearedHand(player) ==
    [player EXCEPT !.hand = <<>>, !.hasStood = FALSE, !.hasBusted = FALSE,
                   !.hasBlackjack = FALSE]

\* blackjack.ts startNewRound; k: the shuffle drawn when the deck is low.
BJStartNewRound(state, k) ==
    [state EXCEPT
        !.deck = IF Len(@) < LOW_DECK THEN shuffleDeck(createDeck, k) ELSE @,
        !.players = [i \in DOMAIN state.players |->
                        [BJClearedHand(state.players[i]) EXCEPT !.bet = 0]],
        !.dealer = BJClearedHand(@),
        !.currentPlayerIndex = 0,
        !.phase = "betting",
        !.roundNumber = @ + 1]

\* The shuffled decks explored: the cards on top, followed by the other
\* cards of createDeck.
BJDeckTops ==
    {<<Card("spades", ACE), Card("hearts", 9), Card("spades", KING), Card("diamonds", 7),
       Card("clubs", 5), Card("diamonds", TEN)>>,
     <<Card("hearts", KING), Card("diamonds", ACE), Card("hearts", QUEEN),
       Card("diamonds", KING)>>,
     <<Card("hearts", ACE), Card("clubs", ACE), Card("clubs", KING), Card("clubs", QUEEN)>>,
     <<Card("spades", KING), Card("hearts", TEN), Card("diamonds", 6), Card("clubs", 6),
       Card("spades", 9), Card("diamonds", KING)>>,
     <<Card("spades", TEN), Card("clubs", TEN), Card("diamonds", 8), Card("hearts", 7),
       Card("spades", TWO), Card("diamonds", THREE)>>,
     <<Card("diamonds", TEN), Card("clubs", KING), Card("spades", 7), Card("clubs", 7)>>,
     <<Card("spades", ACE), Card("diamonds", 5), Card("hearts", 9), Card("spades", KING),
       Card("clubs", 6), Card("diamonds", 8)>>}

BJDeck(top) == top \o Without(createDeck, top)

BlackjackInit ==
    /\ \E playerCount \in BJPlayerCounts, top \in BJDeckTops :
          blackjack = createBlackjackGame(playerCount, BJStartingChips, BJDeck(top))
    /\ handValue = Idle
    /\ solitaireIdle
    /\ heartsIdle
    /\ assholeIdle
    /\ pokerIdle
    /\ deckIdle

BlackjackStep(r) == r.ok /\ blackjack' = r.state /\ blackjackOnly

\* A player who has not bet yet places a bet.
PlaceBet ==
    /\ blackjack.phase = "betting"
    /\ \E playerId \in BJPlayerIds(blackjack), amount \in BetAmounts :
          /\ blackjack.players[playerId + 1].bet = 0
          /\ BlackjackStep(placeBet(blackjack, playerId, amount))

DealInitialCards ==
    /\ blackjack.phase = "betting"
    /\ \A playerId \in BJPlayerIds(blackjack) : blackjack.players[playerId + 1].bet > 0
    /\ blackjack' = dealInitialCards(blackjack)
    /\ blackjackOnly

\* The player at currentPlayerIndex hits or stands.
Hit ==
    /\ blackjack.phase = "playing"
    /\ BlackjackStep(hit(blackjack, blackjack.currentPlayerIndex))

Stand ==
    /\ blackjack.phase = "playing"
    /\ BlackjackStep(stand(blackjack, blackjack.currentPlayerIndex))

DealerPlay ==
    /\ blackjack.phase = "dealer"
    /\ blackjack' = dealerPlay(blackjack)
    /\ blackjackOnly

SettleRound ==
    /\ blackjack.phase = "settlement"
    /\ blackjack' = settleRound(blackjack)
    /\ blackjackOnly

StartNewRound ==
    /\ blackjack.phase = "finished"
    /\ blackjack.roundNumber < BJMaxRounds
    /\ \E k \in BJDeals : blackjack' = BJStartNewRound(blackjack, k)
    /\ blackjackOnly

BlackjackNext ==
    \/ PlaceBet
    \/ DealInitialCards
    \/ Hit
    \/ Stand
    \/ DealerPlay
    \/ SettleRound
    \/ StartNewRound

\* Blackjack called in the order of its phases.
SpecBlackjack == BlackjackInit /\ [][BlackjackNext]_vars

\* Reference for C15, from the hands and not from the flags.
RefBusted(hand) == RefBestTotal(hand) > 21

RefIsBlackjack(hand) == Len(hand) = 2 /\ RefBestTotal(hand) = 21

\* The change of chips the settlement rule gives a player.
RefSettlement(player, dealer) ==
    LET mine == RefBestTotal(player.hand)
        theirs == RefBestTotal(dealer.hand)
    IN  CASE RefBusted(player.hand) -> 0 - player.bet
          [] ~RefBusted(player.hand)
               /\ RefIsBlackjack(player.hand) /\ ~RefIsBlackjack(dealer.hand)
             -> (3 * player.bet) \div 2
          [] ~RefBusted(player.hand)
               /\ RefIsBlackjack(dealer.hand) /\ ~RefIsBlackjack(player.hand)
             -> 0 - player.bet
          [] OTHER ->
               IF RefBusted(dealer.hand) THEN player.bet
               ELSE IF mine > theirs THEN player.bet
               ELSE IF mine < theirs THEN 0 - player.bet
               ELSE 0

\* C15: settleRound changes each player's chips by exactly: minus the bet
\* if the player busted (even when the dealer also busted); otherwise plus
\* 1.5 times the bet if the player has a blackjack and the dealer does not;
\* otherwise minus the bet if the dealer has a blackjack and the player
\* does not; otherwise plus the bet if the dealer busted; otherwise plus
\* the bet, minus the bet or nothing as the player's total is higher than,
\* lower than or equal to the dealer's.  It sets the phase to 'finished'
\* and changes nothing else.
C15_Settlement ==
    [][blackjack.phase = "settlement" =>
          blackjack' =
              [blackjack EXCEPT
                  !.phase = "finished",
                  !.players = [i \in DOMAIN blackjack.players |->
                                  [blackjack.players[i] EXCEPT
                                      !.chips = @ + RefSettlement(blackjack.players[i],
                                                                  blackjack.dealer)]]]
      ]_<<blackjack>>

\* C15 witness: the first round was settled with the dealer busted, one
\* player busted and down by the bet, the other paid the bet.
C15_Witness ==
    /\ blackjack.phase = "finished"
    /\ blackjack.roundNumber = 1
    /\ RefBusted(blackjack.dealer.hand)
    /\ \E i \in DOMAIN blackjack.players, j \in DOMAIN blackjack.players :
          /\ RefBusted(blackjack.players[i].hand)
          /\ blackjack.players[i].chips = BJStartingChips - blackjack.players[i].bet
          /\ ~RefBusted(blackjack.players[j].hand)
          /\ blackjack.players[j].chips = BJStartingChips + blackjack.players[j].bet

\* Under SpecBlackjackAnyCall hit and stand are called for any player while
\* the phase is 'playing', whoever's turn it is.
AnyHit ==
    /\ blackjack.phase = "playing"
    /\ \E playerId \in BJPlayerIds(blackjack) : BlackjackStep(hit(blackjack, playerId))

AnyStand ==
    /\ blackjack.phase = "playing"
    /\ \E playerId \in BJPlayerIds(blackjack) : BlackjackStep(stand(blackjack, playerId))

BlackjackAnyNext ==
    \/ PlaceBet
    \/ DealInitialCards
    \/ AnyHit
    \/ AnyStand
    \/ DealerPlay
    \/ SettleRound
    \/ StartNewRound

\* Blackjack with hit and stand called by any player.
SpecBlackjackAnyCall == BlackjackInit /\ [][BlackjackAnyNext]_vars

\* The players who have neither stood nor busted.
BJActive(state) ==
    {i \in BJPlayerIds(state) :
        ~state.players[i + 1].hasStood /\ ~state.players[i + 1].hasBusted}

\* C23 (as claimed): whichever players call hit and stand, the phase goes
\* from 'playing' to 'dealer' only with every player stood or busted.
C23_DealerAfterAllPlayers ==
    [][(blackjack.phase = "playing" /\ blackjack'.phase = "dealer")
          => BJActive(blackjack') = {}
      ]_<<blackjack>>

\* C24 (as claimed): whenever the phase is 'playing' the player at
\* currentPlayerIndex has neither stood nor busted; a player dealt a
\* blackjack is skipped, and a deal that leaves no player to act gives phase
\* 'dealer'.
C24_CurrentPlayerActive ==
    blackjack.phase = "playing" => blackjack.currentPlayerIndex \in BJActive(blackjack)

\* A round that starts with a deck of exactly LOW_DECK cards, which
\* startNewRound does not reshuffle: the low cards are left, the 37 others
\* went in the rounds before.
LowDeck ==
    <<Card("spades", ACE), Card("hearts", ACE), Card("spades", TWO), Card("diamonds", ACE),
      Card("clubs", ACE), Card("hearts", TWO), Card("diamonds", TWO), Card("clubs", TWO),
      Card("spades", THREE), Card("hearts", THREE), Card("diamonds", THREE),
      Card("clubs", THREE), Card("spades", 4), Card("hearts", 4), Card("diamonds", 4)>>

LowDeckRound == 10

LowDeckInit ==
    /\ \E playerCount \in BJPlayerCounts :
          blackjack = [createBlackjackGame(playerCount, BJStartingChips, LowDeck)
                          EXCEPT !.roundNumber = LowDeckRound]
    /\ handValue = Idle
    /\ solitaireIdle
    /\ heartsIdle
    /\ assholeIdle
    /\ pokerIdle
    /\ deckIdle

\* The player to act hits while the deck has a card.
LowDeckHit == Len(blackjack.deck) > 0 /\ Hit

LowDeckNext ==
    \/ PlaceBet
    \/ DealInitialCards
    \/ LowDeckHit
    \/ Stand
    \/ DealerPlay
    \/ SettleRound

\* One round of blackjack played from a deck of LOW_DECK cards.
SpecBlackjackLowDeck == LowDeckInit /\ [][LowDeckNext]_vars

\* C25 (as claimed): dealerPlay turns every dealer card face-up, then
\* draws the next cards of the deck one at a time exactly while the
\* dealer's value is below 17 (a soft 17 stands): on return the value is at
\* least 17, it was below 17 before each card drawn, the dealer is marked
\* busted exactly when the value exceeds 21, the players are unchanged and
\* the phase is 'settlement'.
C25_DealerPlay ==
    [][(blackjack.phase = "dealer" /\ blackjack'.phase # "dealer")
       => LET old == blackjack.dealer.hand
              new == blackjack'.dealer.hand
              drawn == Len(new) - Len(old)
          IN  /\ drawn >= 0
              /\ drawn <= Len(blackjack.deck)
              /\ \A j \in DOMAIN old : new[j] = [old[j] EXCEPT !.faceUp = TRUE]
              /\ \A j \in 1..drawn : new[Len(old) + j] = BJCard(blackjack.deck[j], TRUE)
              /\ blackjack'.deck = SliceFrom(blackjack.deck, drawn + 1)
              /\ RefBestTotal(new) >= 17
              /\ \A m \in Len(old)..(Len(new) - 1) : RefBestTotal(SliceTo(new, m)) < 17
              /\ blackjack'.dealer.hasBusted <=> RefBestTotal(new) > 21
              /\ blackjack'.players = blackjack.players
              /\ blackjack'.phase = "settlement"
      ]_<<blackjack>>

====
